---- MODULE Spec2Model ----
(***************************************************************************)
(* A model of the cobra_color string engine: the ANSI codec                *)
(* (string/_utils.py, string/_segment.py) and the ColorStr container       *)
(* (string/_color.py).                                                     *)
(*                                                                         *)
(* Encoding.  A text is a sequence of characters.  An ANSI string is a     *)
(* sequence of tokens: a character, or one escape sequence ESC [ params m  *)
(* whose params are kept as the list of their ";"-separated fields, which  *)
(* is what str.split(";") returns ("" has the single field "").  A colour  *)
(* code such as "38;5;44" is kept as the list of its fields                *)
(* <<"38","5","44">>, the unset colour "" as << >>.                        *)
(***************************************************************************)
EXTENDS Integers, Sequences, FiniteSets, TLC

(* ------------------------------ bounds --------------------------------- *)
\* atoms (characters and escape fields) of an ANSI input of the codec
MaxAtoms == 4
\* largest number a field of an escape sequence is read as
MaxNum == 300
\* longest plain text a variable of the caller holds
MaxLen == 2

(* ------------------------- string/_utils.py ---------------------------- *)
None == <<"None">>

__STYLE_CODE == {"1", "2", "3", "4", "5", "7", "8", "9"}

\* __COLOR_RE group 1: [39][0-7]
COLOR_RE_fg == {ToString(n) : n \in (30..37) \cup (90..97)}
\* __COLOR_RE group 2: (?:4|10)[0-7]
COLOR_RE_bg == {ToString(n) : n \in (40..47) \cup (100..107)}

\* __ANSI_RE = \x1b\[([\d;]+)m : the parameter string must be non-empty
ANSI_RE_matches(tok) == tok.esc /\ tok.codes # <<"">>

\* int(s) raises ValueError on a numeral of more digits than the interpreter
\* converts (sys.get_int_max_str_digits(), 4300 unless reconfigured)
int_raises(s) == Len(s) > 4300

\* what the raised exception leaves in place of a result
ValueError == [raised |-> TRUE]

\* int(s or "0") % 256
Int256(s) ==
    IF s = "" THEN 0 ELSE (CHOOSE n \in 0..MaxNum : ToString(n) = s) % 256

\* next(code_iter, default) at cursor i
NextOr(codes, i, default) == IF i <= Len(codes) THEN codes[i] ELSE default
Adv(codes, i) == IF i <= Len(codes) THEN i + 1 ELSE i

\* _fmt_ansicolor._fmt_args: the cursor i stands for code_iter
fmt_args(codes, i, code, c_mode) ==
    LET mode == IF c_mode # "" THEN c_mode ELSE NextOr(codes, i, "")
        j    == IF c_mode # "" THEN i ELSE Adv(codes, i)
    IN  IF mode = "5"
        THEN IF int_raises(NextOr(codes, j, "0"))
             THEN [val |-> None, i |-> Adv(codes, j), err |-> TRUE]
             ELSE [val |-> <<code, "5", ToString(Int256(NextOr(codes, j, "0")))>>,
                   i   |-> Adv(codes, j), err |-> FALSE]
        ELSE IF mode = "2"
        THEN LET j2 == Adv(codes, j)
                 j3 == Adv(codes, j2)
             IN  IF \E n \in {j, j2, j3} : int_raises(NextOr(codes, n, "0"))
                 THEN [val |-> None, i |-> Adv(codes, j3), err |-> TRUE]
                 ELSE [val |-> <<code, "2",
                                 ToString(Int256(NextOr(codes, j, "0"))),
                                 ToString(Int256(NextOr(codes, j2, "0"))),
                                 ToString(Int256(NextOr(codes, j3, "0")))>>,
                       i   |-> Adv(codes, j3), err |-> FALSE]
        ELSE [val |-> None, i |-> j, err |-> FALSE]

\* _fmt_ansicolor(code_iter, c_code, c_mode) -> (fg, bg) and the cursor left
fmt_ansicolor(codes, i, c_code, c_mode) ==
    LET code == IF c_code # "" THEN c_code ELSE NextOr(codes, i, "")
        j    == IF c_code # "" THEN i ELSE Adv(codes, i)
    IN  IF code = "38"
        THEN LET a == fmt_args(codes, j, "38", c_mode)
             IN  [fg |-> a.val, bg |-> None, i |-> a.i, err |-> a.err]
        ELSE IF code = "48"
        THEN LET a == fmt_args(codes, j, "48", c_mode)
             IN  [fg |-> None, bg |-> a.val, i |-> a.i, err |-> a.err]
        ELSE [fg |-> IF code \in COLOR_RE_fg THEN <<code>> ELSE None,
              bg |-> IF code \in COLOR_RE_bg THEN <<code>> ELSE None,
              i  |-> j, err |-> FALSE]

\* A colour argument is None ([t |-> "none"]), a str ([t |-> "str"], v its
\* ";"-separated fields), an int ([t |-> "int"], v = <<n>>) or a sequence
\* ([t |-> "seq"], v its elements); numbers are written as numerals.
NoArg == [t |-> "none", v |-> << >>]
StrArg(fields) == [t |-> "str", v |-> fields]
IntArg(n) == [t |-> "int", v |-> <<n>>]
SeqArg(elems) == [t |-> "seq", v |-> elems]

__STANDARD_COLOR_MAP ==
    [c \in {"d", "r", "g", "y", "b", "m", "c", "w"} |->
        CASE c = "d" -> "0" [] c = "r" -> "1" [] c = "g" -> "2" [] c = "y" -> "3"
          [] c = "b" -> "4" [] c = "m" -> "5" [] c = "c" -> "6" [] c = "w" -> "7"]
__HIGHLIGHT_COLOR_MAP ==
    [c \in {"ld", "lr", "lg", "ly", "lb", "lm", "lc", "lw"} |->
        CASE c = "ld" -> "0" [] c = "lr" -> "1" [] c = "lg" -> "2" [] c = "ly" -> "3"
          [] c = "lb" -> "4" [] c = "lm" -> "5" [] c = "lc" -> "6" [] c = "lw" -> "7"]

\* _to_color_code(c, is_fg)
to_color_code(c, is_fg) ==
    IF c.t = "str"
    THEN IF Len(c.v) = 1 /\ c.v[1] \in DOMAIN __STANDARD_COLOR_MAP
         THEN <<(IF is_fg THEN "3" ELSE "4") \o __STANDARD_COLOR_MAP[c.v[1]]>>
         ELSE IF Len(c.v) = 1 /\ c.v[1] \in DOMAIN __HIGHLIGHT_COLOR_MAP
         THEN <<(IF is_fg THEN "9" ELSE "10") \o __HIGHLIGHT_COLOR_MAP[c.v[1]]>>
         ELSE LET a == fmt_ansicolor(c.v, 1, "", "")
              IN  IF is_fg THEN a.fg ELSE a.bg
    ELSE IF c.t \in {"int", "seq"}
    THEN LET a == fmt_ansicolor(c.v, 1, IF is_fg THEN "38" ELSE "48",
                                IF c.t = "int" THEN "5" ELSE "2")
         IN  IF is_fg THEN a.fg ELSE a.bg
    ELSE None

\* whether _to_color_code(c, is_fg) raises: the ValueError of int() in
\* _fmt_args is the only exception on its paths
to_color_code_raises(c, is_fg) ==
    IF c.t = "str"
    THEN /\ ~(Len(c.v) = 1 /\ c.v[1] \in DOMAIN __STANDARD_COLOR_MAP)
         /\ ~(Len(c.v) = 1 /\ c.v[1] \in DOMAIN __HIGHLIGHT_COLOR_MAP)
         /\ fmt_ansicolor(c.v, 1, "", "").err
    ELSE IF c.t \in {"int", "seq"}
    THEN fmt_ansicolor(c.v, 1, IF is_fg THEN "38" ELSE "48",
                       IF c.t = "int" THEN "5" ELSE "2").err
    ELSE FALSE

to_fgcode(c) == to_color_code(c, TRUE)
to_bgcode(c) == to_color_code(c, FALSE)

__STYLE_MAP ==
    [n \in {"bold", "dim", "italic", "udl", "underline", "blink", "selected",
            "disappear", "del", "delete"} |->
        CASE n = "bold" -> "1" [] n = "dim" -> "2" [] n = "italic" -> "3"
          [] n \in {"udl", "underline"} -> "4" [] n = "blink" -> "5"
          [] n = "selected" -> "7" [] n = "disappear" -> "8"
          [] n \in {"del", "delete"} -> "9"]

\* A styles argument is None, a str ([t |-> "str"], v its ";"-separated
\* fields) or an iterable of strs ([t |-> "set"], v a set).
SetArg(names) == [t |-> "set", v |-> names]

\* to_style_codes(styles); __STYLE_RE finds the one-digit style fields that
\* do not follow a field 38 or 48
to_style_codes(styles) ==
    IF styles.t = "str"
    THEN IF Len(styles.v) = 1 /\ styles.v[1] \in DOMAIN __STYLE_MAP
         THEN {__STYLE_MAP[styles.v[1]]}
         ELSE {styles.v[k] : k \in {j \in 1..Len(styles.v) :
                    /\ styles.v[j] \in __STYLE_CODE
                    /\ (j = 1 \/ styles.v[j - 1] \notin {"38", "48"})}}
    ELSE IF styles.t = "set"
    THEN IF __STYLE_CODE \cap styles.v # {} THEN __STYLE_CODE \cap styles.v
         ELSE {__STYLE_MAP[n] : n \in styles.v \cap DOMAIN __STYLE_MAP}
    ELSE {}

\* Python's "x or y" on Optional[str]
Or(x, y) == IF x = None \/ x = << >> THEN y ELSE x

(* ------------------------ string/_segment.py --------------------------- *)
\* ColorSeg.__init__
ColorSeg(plain, fg_code, bg_code, style_codes) ==
    [plain |-> plain, fg |-> fg_code, bg |-> bg_code,
     styles |-> style_codes \ {""}, istart |-> 0]

\* ColorSeg.empty
ColorSeg_empty == ColorSeg(<< >>, << >>, << >>, {})

\* the tokens of an ANSI string
Ch(c) == [esc |-> FALSE, c |-> c, codes |-> << >>]
Esc(codes) == [esc |-> TRUE, c |-> "", codes |-> codes]

\* the characters a token contributes to the text around the matches
Literal(tok) == IF tok.esc THEN <<"ESC", "[", "m">> ELSE <<tok.c>>

\* the inner loop of ansi_to_segments over the fields of one match,
\* on the running state st = [fg, bg, styles]; ValueError when int() raises
RECURSIVE ansi_codes(_, _, _)
ansi_codes(codes, i, st) ==
    IF i > Len(codes) THEN st
    ELSE LET code == codes[i]
         IN  IF code = "0" \/ code = ""
             THEN ansi_codes(codes, i + 1, [fg |-> << >>, bg |-> << >>, styles |-> {}])
             ELSE IF code \in __STYLE_CODE
             THEN ansi_codes(codes, i + 1, [st EXCEPT !.styles = @ \cup {code}])
             ELSE LET c == fmt_ansicolor(codes, i + 1, code, "")
                  IN  IF c.err THEN ValueError
                      ELSE ansi_codes(codes, c.i,
                                 [st EXCEPT !.fg = Or(c.fg, @), !.bg = Or(c.bg, @)])

\* the loop of ansi_to_segments over the matches: text is ansi[last_idx:here]
RECURSIVE ansi_loop(_, _, _, _, _)
ansi_loop(ansi, k, text, st, new_segments) ==
    IF k > Len(ansi)
    THEN IF text # << >>
         THEN Append(new_segments, ColorSeg(text, st.fg, st.bg, st.styles))
         ELSE new_segments
    ELSE IF ANSI_RE_matches(ansi[k])
    THEN LET st2 == ansi_codes(ansi[k].codes, 1, st)
         IN  IF st2 = ValueError THEN <<ValueError>>
             ELSE ansi_loop(ansi, k + 1, << >>, st2,
                   IF text # << >>
                   THEN Append(new_segments, ColorSeg(text, st.fg, st.bg, st.styles))
                   ELSE new_segments)
    ELSE ansi_loop(ansi, k + 1, text \o Literal(ansi[k]), st, new_segments)

ansi_to_segments(ansi) ==
    IF ansi = << >> THEN << >>
    ELSE IF \A k \in 1..Len(ansi) : ~ansi[k].esc
    THEN <<ColorSeg([k \in 1..Len(ansi) |-> ansi[k].c], << >>, << >>, {})>>
    ELSE ansi_loop(ansi, 1, << >>, [fg |-> << >>, bg |-> << >>, styles |-> {}], << >>)

\* a faulty ColorSeg.iend, which takes the text for empty
iend_empty(seg) == seg.istart

\* ColorSeg.iend
iend(seg) == seg.istart + Len(seg.plain)

\* ColorSeg.equal(other, flags=("fg", "bg", "styles"))
equal_pattern(seg, other) ==
    seg.fg = other.fg /\ seg.bg = other.bg /\ seg.styles = other.styles

\* a segment of the new text without the pattern of seg
seg_apply_bare(seg, str_) == ColorSeg(str_, << >>, << >>, {})

\* ColorSeg.apply / ColorSeg.__call__: the pattern of seg on a new text
seg_apply(seg, str_) == ColorSeg(str_, seg.fg, seg.bg, seg.styles)

\* ColorSeg.from_raw(str_, fg, bg, styles)
from_raw(str_, fg, bg, styles) ==
    ColorSeg(str_, Or(to_fgcode(fg), << >>), Or(to_bgcode(bg), << >>),
             to_style_codes(styles))

\* A formatted colour rule is None ([k |-> "none"]), a str to set
\* ([k |-> "set"]) or a list of pairs <<target, to>> ([k |-> "map"]).
NoRule == [k |-> "none", v |-> << >>, m |-> << >>]
SetRule(code) == [k |-> "set", v |-> code, m |-> << >>]
MapRule(pairs) == [k |-> "map", v |-> << >>, m |-> pairs]

\* a faulty ColorSeg._update_fg, which sets the colour without matching
update_color_always(cur, target, to) == IF to # None THEN to ELSE cur

\* ColorSeg._update_fg / _update_bg on the colour cur
update_color(cur, target, to) == IF to # None /\ cur = target THEN to ELSE cur

RECURSIVE update_colors(_, _)
update_colors(cur, pairs) ==
    IF pairs = << >> THEN cur
    ELSE update_colors(update_color(cur, Head(pairs)[1], Head(pairs)[2]), Tail(pairs))

\* A formatted style pair is <<target, to>>: target is "all", None or a set,
\* to is None or a set; a set is written [set |-> S].
StyleAll == [all |-> TRUE, none |-> FALSE, set |-> {}]
StyleNone == [all |-> FALSE, none |-> TRUE, set |-> {}]
StyleSet(S) == [all |-> FALSE, none |-> FALSE, set |-> S]

\* ColorSeg._update_styles on the style set cur
update_styles(cur, target, to) ==
    IF target.all
    THEN IF to.none THEN {} ELSE IF to.set # {} THEN to.set ELSE cur
    ELSE IF target.none /\ ~to.none /\ to.set # {} THEN cur \cup to.set
    ELSE IF ~target.none /\ target.set # {} /\ target.set \subseteq cur
    THEN IF to.none THEN cur \ target.set
         ELSE IF to.set # {} THEN (cur \ target.set) \cup to.set ELSE cur
    ELSE cur

RECURSIVE update_styles_all(_, _)
update_styles_all(cur, pairs) ==
    IF pairs = << >> THEN cur
    ELSE update_styles_all(update_styles(cur, Head(pairs)[1], Head(pairs)[2]), Tail(pairs))

\* ColorSeg._update(fg, bg, styles); styles is [k |-> "none"] or a pair list
seg_update(seg, fg, bg, styles) ==
    [seg EXCEPT
        !.fg = IF fg.k = "set" THEN fg.v
               ELSE IF fg.k = "map" THEN update_colors(@, fg.m) ELSE @,
        !.bg = IF bg.k = "set" THEN bg.v
               ELSE IF bg.k = "map" THEN update_colors(@, bg.m) ELSE @,
        !.styles = IF styles.k = "map" THEN update_styles_all(@, styles.m) ELSE @]

(* ------------------------ string/_utils.py: loc ------------------------ *)
\* an optional int is << >> (None) or <<n>>
Some(n) == <<n>>

\* slice(start, stop).indices(len_) for the default step
SliceIndices(len_, start, stop) ==
    LET s == IF start = << >> THEN 0
             ELSE IF start[1] < 0 THEN (IF start[1] + len_ < 0 THEN 0 ELSE start[1] + len_)
             ELSE (IF start[1] > len_ THEN len_ ELSE start[1])
        e == IF stop = << >> THEN len_
             ELSE IF stop[1] < 0 THEN (IF stop[1] + len_ < 0 THEN 0 ELSE stop[1] + len_)
             ELSE (IF stop[1] > len_ THEN len_ ELSE stop[1])
    IN  <<s, e>>

Max(a, b) == IF a > b THEN a ELSE b
Min(a, b) == IF a < b THEN a ELSE b

\* loc(len_, slice(start, stop), offset=offset)[:2]
loc_slice(len_, start, stop, offset) ==
    LET off == Max(offset, 0)
        rel(v) == IF v = << >> \/ v[1] < 0 THEN v ELSE Some(Max(v[1] - off, 0))
    IN  SliceIndices(len_, rel(start), rel(stop))

\* an index that does not wrap around from the end
loc_index_unwrapped(len_, a_, offset) == a_ - Max(offset, 0)

\* loc(len_, idx): the index raises IndexError unless loc_index_ok
loc_index_ok(len_, a_, offset) ==
    LET off == Max(offset, 0)
    IN  (off <= a_ /\ a_ < len_ + off) \/ (-len_ <= a_ /\ a_ < 0)
loc_index(len_, a_, offset) ==
    LET off == Max(offset, 0)
    IN  IF off <= a_ /\ a_ < len_ + off THEN a_ - off ELSE a_ + len_

\* text[a:b] on a sequence, for 0 <= a and b already clipped by Python
SubText(text, a, b) ==
    LET lo == Min(Max(a, 0), Len(text))
        hi == Min(Max(b, 0), Len(text))
    IN  IF hi <= lo THEN << >> ELSE [k \in 1..(hi - lo) |-> text[lo + k]]

(* ------------------------- string/_color.py ---------------------------- *)
\* The segments live in a heap (a sequence indexed by object identity); a
\* ColorStr holds the identities of its _SEGMENTS, its _plain and the flags
\* of ExtStr._add_judgment.  Every operation returns the heap it leaves and
\* the object it returns: [h |-> heap, r |-> ColorStr].

\* a local variable: the value x is computed once and body F reads it
With(x, F(_)) == F(x)

\* the text a segment list spells: ExtStr.from_iter(*(seg.plain for seg in ...))
RECURSIVE JoinPlain(_, _)
JoinPlain(h, ids) ==
    IF ids = << >> THEN << >> ELSE h[Head(ids)].plain \o JoinPlain(h, Tail(ids))

\* ExtStr._add_judgment
add_judgment(h, ids) ==
    LET f == \E k \in 1..Len(ids) : h[ids[k]].fg # << >>
        b == \E k \in 1..Len(ids) : h[ids[k]].bg # << >>
        s == \E k \in 1..Len(ids) : h[ids[k]].styles # {}
    IN  [is_fg_colored |-> f, is_bg_colored |-> b, is_styled |-> s,
         is_plain |-> ~(f \/ b \/ s)]

\* a faulty default of copy, under which a new ColorStr keeps the ColorSeg
\* objects it is given
copy_shared == FALSE

\* the default of the parameter copy of ColorStr.__new__
copy_default == TRUE

\* the loop of ColorStr.__new__ over segments[1:]
RECURSIVE new_loop(_, _, _, _)
new_loop(h, new_segments, rest, copy) ==
    IF rest = << >> THEN [h |-> h, segs |-> new_segments]
    ELSE LET id   == Head(rest)
             seg  == h[id]
             last == new_segments[Len(new_segments)]
         IN  IF seg.plain = << >> THEN new_loop(h, new_segments, Tail(rest), copy)
             ELSE IF equal_pattern(seg, h[last])
             THEN new_loop([h EXCEPT ![last].plain = @ \o seg.plain],
                           new_segments, Tail(rest), copy)
             ELSE LET nid == IF copy THEN Len(h) + 1 ELSE id
                      h1  == IF copy THEN Append(h, seg) ELSE h
                      h2  == [h1 EXCEPT ![nid].istart = iend(h1[last])]
                  IN  new_loop(h2, Append(new_segments, nid), Tail(rest), copy)

\* the ColorStr that holds the segments ids of the heap h, with the flags
\* ExtStr._add_judgment computes
MkStr(h, ids) ==
    With(add_judgment(h, ids), LAMBDA flags :
        [SEGMENTS |-> ids, plain |-> JoinPlain(h, ids),
         is_fg_colored |-> flags.is_fg_colored, is_bg_colored |-> flags.is_bg_colored,
         is_styled |-> flags.is_styled, is_plain |-> flags.is_plain])

\* ColorStr.__new__(cls, *segments, copy)
ColorStr_new(h, segments, copy) ==
    With(IF segments = << >>
         THEN [h |-> Append(h, ColorSeg_empty), segs |-> <<Len(h) + 1>>]
         ELSE IF copy
         THEN new_loop([Append(h, h[segments[1]]) EXCEPT ![Len(h) + 1].istart = 0],
                       <<Len(h) + 1>>, Tail(segments), copy)
         ELSE new_loop([h EXCEPT ![segments[1]].istart = 0],
                       <<segments[1]>>, Tail(segments), copy),
         LAMBDA built : [h |-> built.h, r |-> MkStr(built.h, built.segs)])

\* new ColorSeg objects enter the heap
AllocAll(h, segs) ==
    [h |-> h \o segs, ids |-> [k \in 1..Len(segs) |-> Len(h) + k]]

\* a str argument is an ANSI token list; a ColorStr argument is
\* [cstr |-> TRUE, r |-> the object]
Str(a) == [cstr |-> FALSE, a |-> a, r |-> << >>]
Obj(r) == [cstr |-> TRUE, a |-> << >>, r |-> r]

\* len(obj) and obj.plain of an argument seen as a str: a ColorStr is the str
\* of its plain text, a str is its characters (escape sequences included)
RECURSIVE RawText(_)
RawText(a) == IF a = << >> THEN << >> ELSE Literal(Head(a)) \o RawText(Tail(a))

\* to_segments(obj)
to_segments(h, obj) ==
    IF obj.cstr THEN [h |-> h, ids |-> obj.r.SEGMENTS]
    ELSE AllocAll(h, ansi_to_segments(obj.a))

\* ColorStr(*segments, copy=False) on segments just made
new_from(s) == ColorStr_new(s.h, s.ids, FALSE)

\* ColorStr.from_str(str_) without fg, bg and styles
from_str(h, a) == new_from(AllocAll(h, ansi_to_segments(a)))

\* to_cstr(obj)
to_cstr(h, obj) == IF obj.cstr THEN [h |-> h, r |-> obj.r] ELSE from_str(h, obj.a)

\* the loop of ColorStr.__getitem__ over self._SEGMENTS for a slice
RECURSIVE getitem_loop(_, _, _, _, _)
getitem_loop(h, self, ids, start, stop) ==
    IF ids = << >> THEN << >>
    ELSE LET seg == h[Head(ids)]
         IN  IF start >= iend(seg) THEN getitem_loop(h, self, Tail(ids), start, stop)
             ELSE IF stop <= seg.istart THEN << >>
             ELSE <<seg_apply(seg, SubText(self.plain, Max(seg.istart, start),
                                                       Min(stop, iend(seg))))>>
                  \o getitem_loop(h, self, Tail(ids), start, stop)

\* ColorStr.__getitem__(slice(start, stop))
getitem(h, self, start, stop) ==
    With(loc_slice(Len(self.plain), start, stop, 0), LAMBDA se :
        new_from(AllocAll(h, getitem_loop(h, self, self.SEGMENTS, se[1], se[2]))))

\* ColorStr.__getitem__(key) for an int key that loc accepts
getitem_int_ok(h, self, key) ==
    /\ loc_index_ok(Len(self.plain), key, 0)
    /\ \E n \in 1..Len(self.SEGMENTS) :
          LET seg == h[self.SEGMENTS[n]]
          IN  seg.istart <= loc_index(Len(self.plain), key, 0)
              /\ loc_index(Len(self.plain), key, 0) < iend(seg)
getitem_int(h, self, key) ==
    LET k   == loc_index(Len(self.plain), key, 0)
        n   == CHOOSE n \in 1..Len(self.SEGMENTS) :
                  /\ h[self.SEGMENTS[n]].istart <= k /\ k < iend(h[self.SEGMENTS[n]])
                  /\ \A m \in 1..(n - 1) :
                        ~(h[self.SEGMENTS[m]].istart <= k /\ k < iend(h[self.SEGMENTS[m]]))
    IN  new_from(AllocAll(h, <<seg_apply(h[self.SEGMENTS[n]], <<self.plain[k + 1]>>)>>))

\* ColorStr.__add__
add(h, self, other) ==
    With(to_cstr(h, other), LAMBDA o :
        ColorStr_new(o.h, self.SEGMENTS \o o.r.SEGMENTS, copy_default))

RECURSIVE Repeat(_, _)
Repeat(ids, n) == IF n <= 0 THEN << >> ELSE ids \o Repeat(ids, n - 1)

\* ColorStr.__mul__
mul(h, self, n) ==
    IF n <= 0 THEN ColorStr_new(h, << >>, copy_default)
    ELSE ColorStr_new(h, Repeat(self.SEGMENTS, n), copy_default)

\* ColorStr.copy
copy(h, self) == ColorStr_new(h, self.SEGMENTS, copy_default)

\* ColorStr.from_str(str_, fg, bg, styles) with a pattern: the str is taken raw
from_str_raw(h, a, fg, bg, styles) ==
    new_from(AllocAll(h, <<from_raw(RawText(a), fg, bg, styles)>>))

\* The fg, bg and styles arguments of cstr and rebuild: None ([k |-> "none"]),
\* a single value ([k |-> "one"], c the value) or a list of pairs
\* ([k |-> "pairs"], m the pairs <<key, value>>).
ArgNone == [k |-> "none", c |-> NoArg, m |-> << >>]
ArgOne(c) == [k |-> "one", c |-> c, m |-> << >>]
ArgPairs(m) == [k |-> "pairs", c |-> NoArg, m |-> m]

\* ColorStr._update: lambda x: "" if x == "" else to_fgcode(x)
color_func(x, is_fg) == IF x = StrArg(<<"">>) THEN << >> ELSE to_color_code(x, is_fg)

\* ColorStr._update._fmt_c_mapping
fmt_c_mapping(m, is_fg) ==
    IF m.k = "none" THEN NoRule
    ELSE IF m.k = "one"
    THEN IF m.c = StrArg(<<"clear">>) THEN SetRule(<< >>)
         ELSE With(color_func(m.c, is_fg), LAMBDA code :
                  IF code = None THEN NoRule ELSE SetRule(code))
    ELSE MapRule([n \in 1..Len(m.m) |->
                    <<color_func(m.m[n][1], is_fg), color_func(m.m[n][2], is_fg)>>])

\* ColorStr._update: lambda x: None if x is None else to_style_codes(x)
style_func(x) == IF x.t = "none" THEN StyleNone ELSE StyleSet(to_style_codes(x))

\* ColorStr._update._fmt_s_mapping
fmt_s_mapping(m) ==
    IF m.k = "none" THEN NoRule
    ELSE IF m.k = "one"
    THEN IF m.c.t = "str" /\ m.c.v = <<"clear">> THEN MapRule(<<<<StyleAll, StyleNone>>>>)
         ELSE IF m.c.t = "list" /\ m.c.v = {} THEN MapRule(<<<<StyleAll, StyleNone>>>>)
         ELSE MapRule(<<<<StyleAll, style_func(m.c)>>>>)
    ELSE MapRule([n \in 1..Len(m.m) |-> <<style_func(m.m[n][1]), style_func(m.m[n][2])>>])

\* ColorStr._update(fg, bg, styles): rewrites the segments of self in place
update(h, self, fg, bg, styles) ==
    With(<<fmt_c_mapping(fg, TRUE), fmt_c_mapping(bg, FALSE), fmt_s_mapping(styles)>>,
         LAMBDA rules :
    With([id \in 1..Len(h) |->
            IF \E n \in 1..Len(self.SEGMENTS) : self.SEGMENTS[n] = id
            THEN seg_update(h[id], rules[1], rules[2], rules[3])
            ELSE h[id]], LAMBDA h1 :
    With(add_judgment(h1, self.SEGMENTS), LAMBDA flags :
        [h |-> h1,
         r |-> [self EXCEPT !.is_fg_colored = flags.is_fg_colored,
                            !.is_bg_colored = flags.is_bg_colored,
                            !.is_styled = flags.is_styled,
                            !.is_plain = flags.is_plain]])))

\* the loop of ColorStr.from_iter over objects
RECURSIVE from_iter_loop(_, _, _, _, _)
from_iter_loop(h, objects, sep_segments, first, segments) ==
    IF objects = << >> THEN [h |-> h, ids |-> segments]
    ELSE With(to_segments(h, Head(objects)), LAMBDA s :
            from_iter_loop(s.h, Tail(objects), sep_segments, FALSE,
                           segments \o (IF ~first THEN sep_segments ELSE << >>) \o s.ids))

\* ColorStr.from_iter(*objects, sep=sep)
from_iter(h, objects, sep) ==
    With(to_segments(h, sep), LAMBDA sp :
    With(from_iter_loop(sp.h, objects, sp.ids, TRUE, << >>), LAMBDA l :
        ColorStr_new(l.h, l.ids, copy_default)))

\* cstr(*objects, fg=fg, bg=bg, styles=styles, sep=sep)
cstr(h, objects, fg, bg, styles, sep) ==
    With(from_iter(h, objects, sep), LAMBDA c :
        IF fg.k # "none" \/ bg.k # "none" \/ styles.k # "none"
        THEN update(c.h, c.r, fg, bg, styles)
        ELSE c)

\* ColorStr.join
join(h, self, iterable) == from_iter(h, iterable, Obj(self))

\* ColorStr.apply(text, start_idx, extend, _from_left); extend is "none",
\* "left", "right" or "all"
apply(h, self, text, start_idx, extend, from_left) ==
    With(to_cstr(h, text), LAMBDA c :
    IF Len(c.r.plain) = 0 THEN c
    ELSE
    LET c_text   == c.r
        text_len == Len(c_text.plain)
        src_str_len == Len(self.plain)
        pl == IF from_left THEN start_idx ELSE (text_len - start_idx) - src_str_len
        pr == IF from_left THEN start_idx + src_str_len ELSE text_len - start_idx
        mid_text == SubText(c_text.plain, Max(pl, 0), pr)
    IN
    With(getitem(c.h, self, Some(Max(-pl, 0)),
                 Some(Min(src_str_len - (pr - text_len), src_str_len))), LAMBDA pat :
    With(IF pl > 0
         THEN IF extend \in {"left", "all"}
              THEN AllocAll(pat.h, <<seg_apply(pat.h[pat.r.SEGMENTS[1]],
                                               SubText(c_text.plain, 0, pl))>>)
              ELSE With(getitem(pat.h, c_text, Some(0), Some(pl)), LAMBDA g :
                       [h |-> g.h, ids |-> g.r.SEGMENTS])
         ELSE [h |-> pat.h, ids |-> << >>], LAMBDA left :
    With(IF pl < text_len /\ pr > 0
         THEN AllocAll(left.h,
                 [n \in 1..Len(pat.r.SEGMENTS) |->
                     seg_apply(left.h[pat.r.SEGMENTS[n]],
                               SubText(mid_text, left.h[pat.r.SEGMENTS[n]].istart,
                                       iend(left.h[pat.r.SEGMENTS[n]])))])
         ELSE [h |-> left.h, ids |-> << >>], LAMBDA mid :
    With(IF pr < text_len
         THEN IF extend \in {"right", "all"}
              THEN AllocAll(mid.h,
                      <<seg_apply(mid.h[pat.r.SEGMENTS[Len(pat.r.SEGMENTS)]],
                                  SubText(c_text.plain, Max(pr, 0), text_len))>>)
              ELSE With(getitem(mid.h, c_text, Some(Max(pr, 0)), << >>), LAMBDA g :
                       [h |-> g.h, ids |-> g.r.SEGMENTS])
         ELSE [h |-> mid.h, ids |-> << >>], LAMBDA right :
        ColorStr_new(right.h, left.ids \o mid.ids \o right.ids, FALSE))))))

\* ColorStr.insert(index, sub, overwrite, keep_pattern); loc raises IndexError
\* unless insert_ok
insert_ok(self, index) == loc_index_ok(Len(self.plain), index, 0)
insert(h, self, index, sub, overwrite, keep_pattern) ==
    LET i == loc_index(Len(self.plain), index, 0)
    IN
    With(to_cstr(h, sub), LAMBDA c :
    With(IF keep_pattern THEN c
         ELSE IF overwrite THEN apply(c.h, self, Obj(c.r), -i, "none", TRUE)
         ELSE With(getitem_int(c.h, self, i), LAMBDA one :
                  apply(one.h, one.r, Obj(c.r), 0, "all", TRUE)), LAMBDA sub_ :
    With(getitem(sub_.h, self, Some(0), Some(i)), LAMBDA head :
    With(add(head.h, head.r, Obj(sub_.r)), LAMBDA a1 :
    With(getitem(a1.h, self,
                 Some(IF overwrite THEN i + Len(sub_.r.plain) ELSE i), << >>),
         LAMBDA tail :
        add(tail.h, a1.r, Obj(tail.r)))))))

\* ColorStr.rebuild(apply_range, fg, bg, styles); apply_range is None
\* (whole = TRUE) or slice(start, stop)
rebuild_ok(self, whole, start, stop) ==
    LET se == IF whole THEN <<0, Len(self.plain)>>
              ELSE loc_slice(Len(self.plain), start, stop, 0)
    IN  (se[1] = 0 /\ se[2] = Len(self.plain)) \/ insert_ok(self, se[1])
rebuild(h, self, whole, start, stop, fg, bg, styles) ==
    LET se  == IF whole THEN <<0, Len(self.plain)>>
               ELSE loc_slice(Len(self.plain), start, stop, 0)
    IN
    With(getitem(h, self, Some(se[1]), Some(se[2])), LAMBDA sub :
    With(update(sub.h, sub.r, fg, bg, styles), LAMBDA new_sub :
        IF se[1] = 0 /\ se[2] = Len(self.plain) THEN new_sub
        ELSE insert(new_sub.h, self, se[1], Obj(new_sub.r), TRUE, TRUE)))

\* what a caller can observe of a ColorStr: its segments (text, offsets and
\* pattern), its plain text and its flags
View(h, r) ==
    [segs |-> [n \in 1..Len(r.SEGMENTS) |-> h[r.SEGMENTS[n]]], plain |-> r.plain,
     is_fg_colored |-> r.is_fg_colored, is_bg_colored |-> r.is_bg_colored,
     is_styled |-> r.is_styled, is_plain |-> r.is_plain]

(* ----------------------- string/_extension.py ------------------------- *)
\* sub occurs in text at offset i
OccursAt(text, sub, i) ==
    /\ 0 <= i /\ i + Len(sub) <= Len(text)
    /\ \A k \in 1..Len(sub) : text[i + k] = sub[k]

\* str.find(sub, start, end) and str.rfind(sub, start, end) for start >= 0
\* and end None or >= 0
str_find(text, sub, start, end, reverse) ==
    LET e    == IF end = << >> THEN Len(text) ELSE Min(end[1], Len(text))
        hits == {i \in start..(e - Len(sub)) : OccursAt(text, sub, i)}
    IN  IF hits = {} THEN -1
        ELSE IF reverse THEN CHOOSE i \in hits : \A j \in hits : j <= i
        ELSE CHOOSE i \in hits : \A j \in hits : i <= j

\* the indices ExtStr._search yields; with an empty sub and no limit the
\* generator never ends, so it is applied to search_ends arguments only
search_ends(sub, limit) == sub # << >> \/ limit >= 0
RECURSIVE search(_, _, _, _, _, _, _)
search(text, sub, start, end, limit, count, reverse) ==
    IF ~(limit < 0 \/ count < limit) THEN << >>
    ELSE LET idx == str_find(text, sub, start, end, reverse)
         IN  IF idx = -1 THEN << >>
             ELSE IF reverse
             THEN <<idx>> \o search(text, sub, start, Some(idx), limit, count + 1, reverse)
             ELSE <<idx>> \o search(text, sub, idx + Len(sub), end, limit, count + 1, reverse)

Reverse(s) == [k \in 1..Len(s) |-> s[Len(s) + 1 - k]]

\* ExtStr.findall / ExtStr.rfindall
ext_findall(text, sub, start, end, limit, reverse) ==
    IF reverse THEN Reverse(search(text, sub, start, end, limit, 0, TRUE))
    ELSE search(text, sub, start, end, limit, 0, FALSE)

(* ------------------- string/_color.py: search, split ------------------- *)
\* ColorStr.findall(sub, limit=limit, _reverse=_reverse) for a sub that is
\* not a ColorStr
findall(self, sub, limit, reverse) == ext_findall(self.plain, sub, 0, << >>, limit, reverse)

\* ColorSeg.equal(other, slice(a, b)): the text of seg in the range and the
\* pattern are those of other
seg_equal_text(seg, other, a, b) ==
    LET se == loc_slice(Len(seg.plain), Some(a), Some(b), seg.istart)
    IN  Len(other.plain) = se[2] - se[1] /\ OccursAt(seg.plain, other.plain, se[1])
seg_equal(seg, other, a, b) ==
    LET se == loc_slice(Len(seg.plain), Some(a), Some(b), seg.istart)
    IN  /\ Len(other.plain) = se[2] - se[1] /\ OccursAt(seg.plain, other.plain, se[1])
        /\ equal_pattern(seg, other)

\* the loop of ColorStr.equal over the segments of self; other_segments[seg_idx]
\* raises IndexError past the last segment of other
RECURSIVE equal_loop(_, _, _, _, _, _)
equal_loop(h, ids, others, seg_idx, start, stop) ==
    IF ids = << >> THEN "True"
    ELSE LET seg == h[Head(ids)]
         IN  IF start >= iend(seg) THEN equal_loop(h, Tail(ids), others, seg_idx, start, stop)
             ELSE IF stop <= seg.istart THEN "True"
             ELSE IF seg_idx + 1 > Len(others) THEN "IndexError"
             ELSE IF seg_equal(seg, h[others[seg_idx + 1]],
                               Max(seg.istart, start), Min(stop, iend(seg)))
             THEN equal_loop(h, Tail(ids), others, seg_idx + 1, start, stop)
             ELSE "False"

\* ColorStr.equal(other, slice(start, stop)) for a ColorStr other
equal(h, self, other, start, stop) ==
    LET se == loc_slice(Len(self.plain), Some(start), Some(stop), 0)
    IN  IF Len(other.plain) # se[2] - se[1] THEN "False"
        ELSE IF se[1] = se[2] THEN "True"
        ELSE IF self.is_plain /\ other.is_plain
        THEN (IF OccursAt(self.plain, other.plain, se[1]) THEN "True" ELSE "False")
        ELSE IF ~self.is_plain
        THEN equal_loop(h, self.SEGMENTS, other.SEGMENTS, 0, se[1], se[2])
        ELSE "False"

\* ColorStr.startswith(prefix, start) for a ColorStr prefix
startswith(h, self, prefix, start) ==
    equal(h, self, prefix, start, start + Len(prefix.plain))

\* ColorStr.findall(sub, limit=limit, _reverse=_reverse) for a ColorStr sub
\* with a non-empty text: the call raises unless none of the comparisons does
findall_cstr_ok(h, self, sub) ==
    LET cand == search(self.plain, sub.plain, 0, << >>, -1, 0, FALSE)
    IN  \A n \in 1..Len(cand) : startswith(h, self, sub, cand[n]) # "IndexError"
findall_cstr(h, self, sub, limit, reverse) ==
    LET cand == search(self.plain, sub.plain, 0, << >>, -1, 0, reverse)
        kept == SelectSeq(cand, LAMBDA i : startswith(h, self, sub, i) = "True")
        indices == IF limit = 0 THEN << >>
                   ELSE IF 0 < limit /\ limit < Len(kept) THEN SubSeq(kept, 1, limit)
                   ELSE kept
    IN  IF reverse THEN Reverse(indices) ELSE indices

\* a faulty loop, which leaves the separator at the head of the next piece
RECURSIVE split_loop_keep(_, _, _, _, _, _)
split_loop_keep(h, self, found, sep_len, start_idx, new_subs) ==
    IF found = << >>
    THEN With(getitem(h, self, Some(start_idx), << >>), LAMBDA g :
            [h |-> g.h, rs |-> Append(new_subs, g.r)])
    ELSE With(getitem(h, self, Some(start_idx), Some(Head(found))), LAMBDA g :
            split_loop_keep(g.h, self, Tail(found), sep_len, Head(found),
                            Append(new_subs, g.r)))

\* the loop of ColorStr.split over the indices found
RECURSIVE split_loop(_, _, _, _, _, _)
split_loop(h, self, found, sep_len, start_idx, new_subs) ==
    IF found = << >>
    THEN With(getitem(h, self, Some(start_idx), << >>), LAMBDA g :
            [h |-> g.h, rs |-> Append(new_subs, g.r)])
    ELSE With(getitem(h, self, Some(start_idx), Some(Head(found))), LAMBDA g :
            split_loop(g.h, self, Tail(found), sep_len, Head(found) + sep_len,
                       Append(new_subs, g.r)))

\* ColorStr.split(sep, maxsplit, _reverse) for a str sep
split(h, self, sep, maxsplit, reverse) ==
    split_loop(h, self, findall(self, sep, maxsplit, reverse), Len(sep), 0, << >>)

\* ColorStr.replace(old, new, count) for a str old
replace(h, self, old, new, count) ==
    With(split(h, self, old, count, FALSE), LAMBDA sp :
        from_iter(sp.h, [n \in 1..Len(sp.rs) |-> Obj(sp.rs[n])], new))

\* ColorStr.center / ljust / rjust: the lengths the decorated method returns
pad_lens(kind, self, width) ==
    LET padding == width - Len(self.plain)
    IN  IF kind = "center" THEN <<(padding \div 2) + (padding % 2), padding \div 2>>
        ELSE IF kind = "ljust" THEN <<0, padding>>
        ELSE <<padding, 0>>

\* _extend_method.wrapper(obj, width, fillchar, extend)
extend_method(h, kind, obj, width, fillchar, extend) ==
    IF width <= Len(obj.plain) THEN copy(h, obj)
    ELSE
    LET lens == pad_lens(kind, obj, width)
    IN
    With(to_cstr(h, fillchar), LAMBDA f0 :
    With(IF Len(f0.r.plain) = 0 THEN from_str(f0.h, <<Ch(" ")>>) ELSE f0, LAMBDA f :
    With(mul(f.h, f.r, (lens[1] \div Len(f.r.plain)) + 1), LAMBDA left :
    With(mul(left.h, f.r, (lens[2] \div Len(f.r.plain)) + 1), LAMBDA right :
    With(getitem(right.h, left.r, << >>, Some(lens[1])), LAMBDA lcut :
    With(add(lcut.h, lcut.r, Obj(obj)), LAMBDA a1 :
    With(getitem(a1.h, right.r, << >>, Some(lens[2])), LAMBDA rcut :
    With(add(rcut.h, a1.r, Obj(rcut.r)), LAMBDA a2 :
        apply(a2.h, obj, Obj(a2.r), lens[1], extend, TRUE)))))))))

\* str.strip(chars), str.lstrip(chars), str.rstrip(chars),
\* str.removeprefix(arg) and str.removesuffix(arg): the range of text the
\* native method keeps
str_clip(kind, text, arg) ==
    LET in(c)  == \E k \in 1..Len(arg) : arg[k] = c
        lead   == CHOOSE n \in 0..Len(text) :
                     /\ \A k \in 1..n : in(text[k])
                     /\ n < Len(text) => ~in(text[n + 1])
        trail  == CHOOSE n \in 0..Len(text) :
                     /\ \A k \in (Len(text) - n + 1)..Len(text) : in(text[k])
                     /\ n < Len(text) => ~in(text[Len(text) - n])
    IN  CASE kind = "lstrip" -> <<lead, Len(text)>>
          [] kind = "rstrip" -> <<0, Len(text) - trail>>
          [] kind = "strip"  -> <<lead, Max(lead, Len(text) - trail)>>
          [] kind = "removeprefix" ->
                IF OccursAt(text, arg, 0) THEN <<Len(arg), Len(text)>> ELSE <<0, Len(text)>>
          [] kind = "removesuffix" ->
                IF arg # << >> /\ OccursAt(text, arg, Len(text) - Len(arg))
                THEN <<0, Len(text) - Len(arg)>> ELSE <<0, Len(text)>>

\* ColorStr.find(sub) for a str sub
find(self, sub) ==
    With(findall(self, sub, 1, FALSE), LAMBDA idx_list :
        IF idx_list # << >> THEN idx_list[1] ELSE -1)

\* _clip_method.wrapper(obj, arg) for the method kind
clip_method(h, kind, obj, arg) ==
    With(str_clip(kind, obj.plain, arg), LAMBDA kept :
        apply(h, obj,
              Str([k \in 1..(kept[2] - kept[1]) |-> Ch(obj.plain[kept[1] + k])]),
              -find(obj, SubText(obj.plain, kept[1], kept[2])), "none", TRUE))

(* ---------------------- string/_segment.py: rich ---------------------- *)
\* the orders in which iterating the set S can yield its elements
Enumerations(S) ==
    {f \in [1..Cardinality(S) -> S] : \A a, b \in DOMAIN f : f[a] = f[b] => a = b}

\* a faulty ColorSeg.assemble, which leaves the pattern open after the text
assemble_open(seg, order) ==
    LET text == [k \in 1..Len(seg.plain) |-> Ch(seg.plain[k])]
    IN  IF seg.plain = << >> THEN << >>
        ELSE IF seg.styles = {} /\ seg.fg = << >> /\ seg.bg = << >> THEN text
        ELSE <<Esc((IF seg.styles = {} THEN <<"">> ELSE order) \o seg.fg \o seg.bg)>>
             \o text

\* ColorSeg.assemble("fg", "bg", "styles") with ";".join(self.styles) yielding
\* the styles in the given order: the tokens of ESC [ codes m plain ESC [ 0 m.
\* codes is styles + ";" fg + ";" bg, so its first field is empty without styles.
assemble(seg, order) ==
    LET text == [k \in 1..Len(seg.plain) |-> Ch(seg.plain[k])]
    IN  IF seg.plain = << >> THEN << >>
        ELSE IF seg.styles = {} /\ seg.fg = << >> /\ seg.bg = << >> THEN text
        ELSE <<Esc((IF seg.styles = {} THEN <<"">> ELSE order) \o seg.fg \o seg.bg)>>
             \o text \o <<Esc(<<"0">>)>>

\* ColorSeg.assemble(*enable): styles, fg and bg are written only when enabled;
\* fg and bg each bring their own ";" before them
assemble_enable(seg, enable, order) ==
    LET text   == [k \in 1..Len(seg.plain) |-> Ch(seg.plain[k])]
        styles == IF "styles" \in enable THEN order ELSE << >>
        fg     == IF "fg" \in enable THEN seg.fg ELSE << >>
        bg     == IF "bg" \in enable THEN seg.bg ELSE << >>
    IN  IF seg.plain = << >> THEN << >>
        ELSE IF styles = << >> /\ fg = << >> /\ bg = << >> THEN text
        ELSE <<Esc((IF styles = << >> THEN <<"">> ELSE styles) \o fg \o bg)>>
             \o text \o <<Esc(<<"0">>)>>

\* ColorStr.rich: every string ExtStr.from_iter(*(seg.to_ansi() ...)) can be
RECURSIVE rich(_, _)
rich(h, ids) ==
    IF ids = << >> THEN {<< >>}
    ELSE {a \o rest : a \in {assemble(h[Head(ids)], o) : o \in Enumerations(h[Head(ids)].styles)},
                      rest \in rich(h, Tail(ids))}

(* ------------------------ the ColorStr machine ------------------------- *)
\* ansi, parsed: the input of the codec and what ansi_to_segments returned
\* heap: the ColorSeg objects alive; strs: the ColorStr each variable of the
\* caller holds; call: the operation called last and the variable assigned
VARIABLES ansi, parsed, heap, strs, call

vars == <<ansi, parsed, heap, strs, call>>

\* the variables of the caller
Slots == {1, 2}
\* the characters of the caller's texts
Chars == {"a", "b"}

\* the segments reachable from the variables, each once, in the order met
RECURSIVE Live(_, _, _)
Live(ss, k, acc) ==
    IF k > Len(ss) THEN acc
    ELSE LET ids == ss[k].SEGMENTS
             F[n \in 0..Len(ids)] ==
                IF n = 0 THEN acc
                ELSE IF \E m \in 1..Len(F[n - 1]) : F[n - 1][m] = ids[n]
                THEN F[n - 1] ELSE Append(F[n - 1], ids[n])
         IN  Live(ss, k + 1, F[Len(ids)])

\* objects no variable reaches are collected; identities are renumbered
Collect(h, ss) ==
    LET live == Live(ss, 1, << >>)
        pos(id) == CHOOSE n \in 1..Len(live) : live[n] = id
    IN  [h  |-> [n \in 1..Len(live) |-> h[live[n]]],
         ss |-> [k \in DOMAIN ss |->
                    [ss[k] EXCEPT !.SEGMENTS = [n \in 1..Len(@) |-> pos(@[n])]]]]

\* ColorStr()
ColorStr_empty(h) == ColorStr_new(h, << >>, copy_default)

NotParsed == [done |-> FALSE, raised |-> FALSE, segs |-> << >>]

NoCall == [op |-> "init", t |-> 0]

StrInit ==
    /\ LET e1 == ColorStr_empty(<< >>)
           e2 == ColorStr_empty(e1.h)
       IN  heap = e2.h /\ strs = <<e1.r, e2.r>>
    /\ call = NoCall

Init == ansi = << >> /\ parsed = NotParsed /\ StrInit

\* the returned text fits the model's bound
Fits(res) == Len(res.r.plain) <= MaxLen

\* variable t is assigned the object res.r an operation returned
Assign(t, res, op) ==
    /\ Fits(res)
    /\ LET c == Collect(res.h, [strs EXCEPT ![t] = res.r])
       IN  heap' = c.h /\ strs' = c.ss
    /\ call' = [op |-> op, t |-> t]
    /\ UNCHANGED <<ansi, parsed>>

\* Variable Result is assigned what the operations return; variable Operand
\* holds an operand, which only a constructor assigns.
Result == CHOOSE k \in Slots : \A j \in Slots : k <= j
Operand == CHOOSE k \in Slots : \A j \in Slots : k >= j
\* the other variable
Other(i) == CHOOSE k \in Slots : k # i

\* the ANSI texts the caller parses
AnsiTexts ==
    {<<Ch("a")>>, <<Ch("b")>>, <<Esc(<<"31">>), Ch("a"), Esc(<<"0">>), Ch("b")>>}

\* the colour arguments of the caller: none, a colour, "", "clear" and mappings
FgArgs ==
    {ArgNone, ArgOne(StrArg(<<"r">>)), ArgOne(StrArg(<<"">>)),
     ArgOne(StrArg(<<"clear">>)),
     ArgPairs(<< <<StrArg(<<"r">>), StrArg(<<"">>)>> >>),
     ArgPairs(<< <<StrArg(<<"">>), StrArg(<<"r">>)>> >>)}

Indices == (-1)..MaxLen
\* the slices [start:stop] of the caller: [:] and 0 <= start <= stop <= MaxLen
Ranges ==
    {<<(<< >>), (<< >>)>>}
    \cup {<<Some(p[1]), Some(p[2])>> :
             p \in {q \in (0..MaxLen) \X (0..MaxLen) : q[1] <= q[2]}}
Extends == {"none", "left", "right", "all"}

\* t = ColorStr()
Empty ==
    \E t \in Slots :
        /\ Assign(t, ColorStr_empty(heap), "new")

\* t = ColorStr.from_str(text)
FromStr ==
    \E t \in Slots, a \in AnsiTexts :
        /\ Assign(t, from_str(heap, a), "new")

\* t = ColorStr.from_str(text, fg="r")
FromStrFg ==
    \E t \in Slots, a \in {<< >>, <<Ch("b")>>} :
        /\ Assign(t,
                  from_str_raw(heap, a, StrArg(<<"r">>), NoArg, NoArg),
                  "new")

\* x = cstr(y, fg=...)
Cstr ==
    \E i \in Slots, fg \in FgArgs :
        /\ Assign(Result,
                  cstr(heap, <<Obj(strs[i])>>, fg, ArgNone, ArgNone, Str(<< >>)),
                  "rewrite")

\* x = cstr(x, y, fg=...) and x = cstr(y, x, fg=...)
CstrSeveral ==
    \E i \in Slots, fg \in {ArgNone, ArgOne(StrArg(<<"r">>))} :
        /\ Assign(Result,
                  cstr(heap, <<Obj(strs[i]), Obj(strs[Other(i)])>>, fg, ArgNone, ArgNone,
                  Str(<< >>)),
                  "rewrite")

\* x = y.rebuild(fg=...), x = x.rebuild(fg=...) and
\* x = x.rebuild(slice(start, stop), fg=...); an empty range raises IndexError
\* and assigns nothing
Rebuild ==
    \E i \in Slots, whole \in BOOLEAN, range \in Ranges,
       fg \in {ArgOne(StrArg(<<"r">>)),
               ArgPairs(<< <<StrArg(<<"r">>), StrArg(<<"">>)>> >>)} :
        /\ (whole \/ i = Operand) => range = <<(<< >>), (<< >>)>>
        /\ rebuild_ok(strs[i], whole, range[1], range[2])
        /\ Assign(Result,
                  rebuild(heap, strs[i], whole, range[1], range[2], fg, ArgNone, ArgNone),
                  "rewrite")

\* x = x + y and x = y + x, for ColorStr x and y
Add ==
    \E i \in Slots :
        /\ Assign(Result,
                  add(heap, strs[i], Obj(strs[Other(i)])),
                  "build")

\* x = x + "b"
AddStr ==
    /\ Assign(Result,
                  add(heap, strs[Result], Str(<<Ch("b")>>)),
                  "build")

\* x = y * n
Mul ==
    \E i \in Slots, n \in (-1)..MaxLen :
        /\ Assign(Result,
                  mul(heap, strs[i], n),
                  "build")

\* x = y[start:stop]
GetSlice ==
    \E i \in Slots, range \in Ranges :
        /\ Assign(Result,
                  getitem(heap, strs[i], range[1], range[2]),
                  "build")

\* x = y[key]; an index out of range raises IndexError and assigns nothing
GetIndex ==
    \E i \in Slots, key \in Indices :
        /\ getitem_int_ok(heap, strs[i], key)
        /\ Assign(Result, getitem_int(heap, strs[i], key), "build")

\* x = x.apply(y, start_idx, extend) and x = y.apply(x, start_idx, extend)
Apply ==
    \E i \in Slots, start_idx \in 0..1, extend \in Extends :
        /\ Assign(Result,
                  apply(heap, strs[i], Obj(strs[Other(i)]), start_idx, extend, TRUE),
                  "build")

\* x = x.rapply(y, start_idx, extend)
RApply ==
    \E start_idx \in {-1, 0}, extend \in {"none", "all"} :
        /\ Assign(Result,
                  apply(heap, strs[Result], Obj(strs[Operand]), start_idx, extend, FALSE),
                  "build")

\* x = x.insert(index, y, overwrite, keep_pattern) and x = y.insert(index, x,
\* ...); an index out of range raises IndexError and assigns nothing
Insert ==
    \E i \in Slots, index \in Indices, overwrite, keep_pattern \in BOOLEAN :
        /\ insert_ok(strs[i], index)
        /\ Assign(Result, insert(heap, strs[i], index, Obj(strs[Other(i)]), overwrite,
                                 keep_pattern), "build")

\* x = y.split("a", maxsplit)[n] and x = y.rsplit("a", maxsplit)[n]
Split ==
    \E i \in Slots, maxsplit \in {-1, 1}, reverse \in BOOLEAN, n \in 1..(MaxLen + 1) :
        /\ n <= Len(strs[i].plain) + 1
        /\ reverse => maxsplit = 1
        /\ Assign(Result,
                  With(split(heap, strs[i], <<"a">>, maxsplit, reverse),
                       LAMBDA res : [h |-> res.h,
                                     r |-> IF n <= Len(res.rs) THEN res.rs[n]
                                           ELSE res.rs[Len(res.rs)]]),
                  "build")

\* x = y.join([x]), x = y.join([x, x]), x = x.join([y]) and x = x.join([y, y])
Join ==
    \E i \in Slots, two \in BOOLEAN :
        /\ Assign(Result,
                  join(heap, strs[i],
                       IF two THEN <<Obj(strs[Other(i)]), Obj(strs[Other(i)])>>
                       ELSE <<Obj(strs[Other(i)])>>),
                  "build")

\* x = x.replace(old, y, count)
Replace ==
    \E old \in Chars, count \in {-1, 1} :
        /\ Assign(Result,
                  replace(heap, strs[Result], <<old>>, Obj(strs[Operand]), count),
                  "build")

\* x = x.center(MaxLen, fillchar, extend), x.ljust(...) and x.rjust(...)
Justify ==
    \E kind \in {"center", "ljust", "rjust"},
       fill \in {<<Ch("b")>>, <<Esc(<<"31">>), Ch("a")>>}, extend \in {"none", "all"} :
        /\ Assign(Result,
                  extend_method(heap, kind, strs[Result], MaxLen, Str(fill), extend),
                  "build")

\* x = y.copy()
Copy ==
    \E i \in Slots :
        /\ Assign(Result, copy(heap, strs[i]), "build")

Next ==
    \/ Empty \/ FromStr \/ FromStrFg \/ Cstr \/ CstrSeveral \/ Rebuild \/ Add
    \/ AddStr \/ Mul \/ GetSlice \/ GetIndex \/ Apply \/ RApply \/ Insert \/ Split
    \/ Join \/ Replace \/ Justify \/ Copy

Spec == Init /\ [][Next]_vars

(* ------------------------- the codec machine --------------------------- *)
CodecChars == {"a"}

\* a numeral of n digits
RECURSIVE Nines(_)
Nines(n) ==
    IF n = 0 THEN ""
    ELSE IF n % 2 = 0 THEN LET h == Nines(n \div 2) IN h \o h
    ELSE "9" \o Nines(n - 1)

\* the fields the caller writes: empty, reset, styles, colours, the extended
\* colour code and its modes, a number above 255 and a numeral of 4301 digits
CodecCodes == {"", "0", "1", "2", "5", "31", "41", "38", "300", Nines(4301)}

Atoms(s) == IF s = << >> THEN 0
            ELSE LET F[k \in 0..Len(s)] ==
                        IF k = 0 THEN 0
                        ELSE F[k - 1] + (IF s[k].esc THEN Len(s[k].codes) ELSE 1)
                 IN F[Len(s)]

CodecInit == ansi = << >> /\ parsed = NotParsed /\ StrInit

\* the caller writes one more character
PutChar == /\ ~parsed.done /\ Atoms(ansi) < MaxAtoms
           /\ \E c \in CodecChars : ansi' = Append(ansi, Ch(c))
           /\ UNCHANGED <<parsed, heap, strs, call>>

\* the caller opens a new escape sequence: ESC [ m, or ESC [ code m
PutEsc == /\ ~parsed.done /\ Atoms(ansi) < MaxAtoms
          /\ \E code \in CodecCodes : ansi' = Append(ansi, Esc(<<code>>))
          /\ UNCHANGED <<parsed, heap, strs, call>>

\* the caller adds ";" code to the escape sequence written last
PutCode == /\ ~parsed.done /\ Atoms(ansi) < MaxAtoms
           /\ ansi # << >> /\ ansi[Len(ansi)].esc
           /\ \E code \in CodecCodes :
                ansi' = [ansi EXCEPT ![Len(ansi)].codes = Append(@, code)]
           /\ UNCHANGED <<parsed, heap, strs, call>>

\* ansi_to_segments(ansi)
Parse == /\ ~parsed.done
         /\ LET r == ansi_to_segments(ansi)
            IN  parsed' = [done |-> TRUE, raised |-> (r = <<ValueError>>),
                           segs |-> IF r = <<ValueError>> THEN << >> ELSE r]
         /\ UNCHANGED <<ansi, heap, strs, call>>

CodecNext == PutChar \/ PutEsc \/ PutCode \/ Parse

SpecCodec == CodecInit /\ [][CodecNext]_vars

(* ----------------------- properties of the codec ----------------------- *)
\* the pattern of every character of a segment list, in order
RECURSIVE PerChar(_)
PerChar(segs) ==
    IF segs = << >> THEN << >>
    ELSE LET s == Head(segs)
         IN  [k \in 1..Len(s.plain) |->
                [c |-> s.plain[k], fg |-> s.fg, bg |-> s.bg, styles |-> s.styles]]
             \o PerChar(Tail(segs))

NoState == [fg |-> << >>, bg |-> << >>, styles |-> {}]

\* the literal runs of an input in which every token ESC [ params m is an
\* SGR sequence, each run with the state accumulated before it
RECURSIVE ExpectedRuns(_, _, _, _)
ExpectedRuns(s, k, text, st) ==
    LET flush == IF text # << >> THEN <<ColorSeg(text, st.fg, st.bg, st.styles)>>
                 ELSE << >>
    IN  IF k > Len(s) THEN flush
        ELSE IF s[k].esc
        THEN flush \o ExpectedRuns(s, k + 1, << >>, ansi_codes(s[k].codes, 1, st))
        ELSE ExpectedRuns(s, k + 1, Append(text, s[k].c), st)

\* C8: every literal run between SGR sequences is emitted as one segment that
\* carries the state accumulated from the codes before it since the last reset,
\* and the text after the last sequence is emitted with the last state
C8_RunsCarryState ==
    parsed.done /\ ~parsed.raised => parsed.segs = ExpectedRuns(ansi, 1, << >>, NoState)

IsReset(tok) == tok.esc /\ tok.codes \in {<<"0">>, <<"">>}

\* the characters written after token k, when nothing but characters follows
Trailing(s, k) == [j \in 1..(Len(s) - k) |-> s[k + j].c]

\* C9: ESC [ 0 m and ESC [ m are both consumed (no segment text holds an
\* escape character) and both clear fg, bg and styles for the text that follows
C9_ResetForms ==
    parsed.done /\ ~parsed.raised =>
        /\ \A n \in 1..Len(parsed.segs) :
              \A j \in 1..Len(parsed.segs[n].plain) : parsed.segs[n].plain[j] # "ESC"
        /\ \A k \in 1..Len(ansi) :
              (/\ IsReset(ansi[k]) /\ k < Len(ansi)
               /\ \A j \in (k + 1)..Len(ansi) : ~ansi[j].esc)
              => LET last == parsed.segs[Len(parsed.segs)]
                 IN  /\ last.plain = Trailing(ansi, k)
                     /\ last.fg = << >> /\ last.bg = << >> /\ last.styles = {}

IsNum(s) == s # ""
Known(code) == code \in {"0", ""} \cup __STYLE_CODE \cup COLOR_RE_fg \cup COLOR_RE_bg

\* the fields of one sequence without its malformed or unrecognised codes:
\* an unknown number, a 38/48 with an unknown or missing mode, and, when
\* strict, a 38/48 colour with a missing argument or an argument above 255
RECURSIVE Cleaned(_, _, _)
Cleaned(codes, i, strict) ==
    IF i > Len(codes) THEN << >>
    ELSE LET code == codes[i]
             has(n) == i + n <= Len(codes) /\ IsNum(codes[i + n])
             arg(n) == IF has(n) THEN ToString(Int256(codes[i + n])) ELSE "0"
             ok(n)  == has(n) /\ Int256(codes[i + n]) = (CHOOSE v \in 0..MaxNum : ToString(v) = codes[i + n])
         IN  IF code \in {"38", "48"}
             THEN IF i + 1 <= Len(codes) /\ codes[i + 1] = "5"
                  THEN (IF strict /\ ~ok(2) THEN << >> ELSE <<code, "5", arg(2)>>)
                       \o Cleaned(codes, i + 3, strict)
                  ELSE IF i + 1 <= Len(codes) /\ codes[i + 1] = "2"
                  THEN (IF strict /\ ~(ok(2) /\ ok(3) /\ ok(4)) THEN << >>
                        ELSE <<code, "2", arg(2), arg(3), arg(4)>>)
                       \o Cleaned(codes, i + 5, strict)
                  ELSE Cleaned(codes, i + 2, strict)
             ELSE IF Known(code) THEN <<code>> \o Cleaned(codes, i + 1, strict)
             ELSE Cleaned(codes, i + 1, strict)

\* the input with every matched sequence cleaned; a sequence left without
\* any field is dropped, one left with a single empty field is written ESC [ 0 m
RECURSIVE CleanedInput(_, _)
CleanedInput(s, strict) ==
    IF s = << >> THEN << >>
    ELSE LET t == Head(s)
             c == Cleaned(t.codes, 1, strict)
         IN  (IF ~ANSI_RE_matches(t) THEN <<t>>
              ELSE IF c = << >> THEN << >>
              ELSE IF c = <<"">> THEN <<Esc(<<"0">>)>> ELSE <<Esc(c)>>)
             \o CleanedInput(Tail(s), strict)

RECURSIVE Flat(_)
Flat(segs) == IF segs = << >> THEN << >> ELSE Head(segs).plain \o Flat(Tail(segs))

RECURSIVE LiteralText(_)
LiteralText(s) ==
    IF s = << >> THEN << >>
    ELSE (IF ANSI_RE_matches(Head(s)) THEN << >> ELSE Literal(Head(s)))
         \o LiteralText(Tail(s))

\* C10: parsing is total: ansi_to_segments returns normally for every input
C10_ParseTotal == parsed.done => ~parsed.raised

\* C10, second half: where the parser returns, every malformed or unrecognised
\* code, a colour with a missing argument or an argument above 255 included,
\* leaves the state as it was
C10_MalformedIgnored ==
    parsed.done /\ ~parsed.raised =>
        PerChar(parsed.segs) = PerChar(ansi_to_segments(CleanedInput(ansi, TRUE)))

\* what the parser does where it returns: the segments hold the literal text;
\* an unknown number and a 38/48 with an unknown or missing mode (the mode
\* field is consumed with it) are ignored; a missing colour argument is read
\* as 0 and an argument above 255 modulo 256
ParseLenient ==
    parsed.done /\ ~parsed.raised =>
        /\ Flat(parsed.segs) = LiteralText(ansi)
        /\ \A n \in 1..Len(parsed.segs) : parsed.segs[n].plain # << >>
        /\ PerChar(parsed.segs) = PerChar(ansi_to_segments(CleanedInput(ansi, FALSE)))
(* ------------------ properties of the ColorStr machine ----------------- *)
\* the segments of the ColorStr variable k holds
Segs(k) == View(heap, strs[k]).segs

\* the texts of a segment list, concatenated in order
RECURSIVE Concat(_)
Concat(segs) == IF segs = << >> THEN << >> ELSE Head(segs).plain \o Concat(Tail(segs))

\* C1: after any sequence of operations the segments of every ColorStr are
\* contiguous: the first starts at 0, each segment ends where the next starts,
\* and the segment texts concatenated in order are the plain text
C1_Contiguous ==
    \A k \in Slots :
        LET segs == Segs(k)
        IN  /\ Len(segs) >= 1
            /\ segs[1].istart = 0
            /\ \A n \in 1..(Len(segs) - 1) :
                  segs[n].istart + Len(segs[n].plain) = segs[n + 1].istart
            /\ Concat(segs) = strs[k].plain
            /\ segs[Len(segs)].istart + Len(segs[Len(segs)].plain) = Len(strs[k].plain)

\* an operation has returned a ColorStr of several segments of non-empty text
C1_Witness ==
    /\ call.op = "build"
    /\ Len(Segs(Result)) >= 2
    /\ \A n \in 1..Len(Segs(Result)) : Segs(Result)[n].plain # << >>
    /\ Len(strs[Result].plain) = MaxLen

\* C2: in every ColorStr no two consecutive segments of non-empty text have
\* the same (fg, bg, styles)
C2_Merged ==
    \A k \in Slots :
        \A n \in 1..(Len(Segs(k)) - 1) :
            (Segs(k)[n].plain # << >> /\ Segs(k)[n + 1].plain # << >>)
                => ~equal_pattern(Segs(k)[n], Segs(k)[n + 1])

C5_SliceConcat ==
    \A k \in Slots, j \in 0..MaxLen :
        j <= Len(strs[k].plain) =>
            With(getitem(heap, strs[k], Some(0), Some(j)), LAMBDA a :
            With(getitem(a.h, strs[k], Some(j), << >>), LAMBDA b :
            With(add(b.h, a.r, Obj(b.r)), LAMBDA c :
                View(c.h, c.r) = View(heap, strs[k]))))

\* for every ColorStr r and 0 <= i <= j <= len(r), r[i:j] has the plain text
\* r.plain[i:j] and each of its characters carries the pattern it had in r
SliceCarriesPattern ==
    \A k \in Slots, i, j \in 0..MaxLen :
        (i <= j /\ j <= Len(strs[k].plain)) =>
            With(getitem(heap, strs[k], Some(i), Some(j)), LAMBDA a :
                /\ a.r.plain = SubText(strs[k].plain, i, j)
                /\ PerChar(View(a.h, a.r).segs) = SubText(PerChar(Segs(k)), i, j))

\* C6: every ColorStr whose plain text is empty has exactly one segment, with
\* empty text, no fg, no bg and no styles
C6_EmptyIsDefault ==
    \A k \in Slots : strs[k].plain = << >> => Segs(k) = <<ColorSeg_empty>>

\* C7: a segment with empty text occurs only in a ColorStr whose plain text
\* is empty
C7_NoEmptySegment ==
    \A k \in Slots :
        strs[k].plain # << >> => \A n \in 1..Len(Segs(k)) : Segs(k)[n].plain # << >>

(* ------------------------ the round-trip machine ----------------------- *)
\* the patterns of the caller: (fg, bg, styles) arguments of ColorStr.from_str
RichPatterns ==
    {<<NoArg, NoArg, NoArg>>,
     <<StrArg(<<"r">>), NoArg, NoArg>>,
     <<IntArg("200"), NoArg, SetArg({"bold", "udl"})>>,
     <<SeqArg(<<"1", "2", "3">>), StrArg(<<"lb">>), NoArg>>,
     <<NoArg, StrArg(<<"lb">>), StrArg(<<"bold">>)>>,
     <<NoArg, IntArg("7"), SetArg({"dim", "del", "blink"})>>}

\* x = x + ColorStr.from_str(text, fg, bg, styles)
Piece ==
    \E text \in {<< >>} \cup {<<Ch(c)>> : c \in Chars}, pat \in RichPatterns :
        /\ Len(strs[Result].plain) + Len(text) <= MaxLen
        /\ Assign(Result,
                  With(from_str_raw(heap, text, pat[1], pat[2], pat[3]), LAMBDA p :
                      add(p.h, strs[Result], Obj(p.r))),
                  "build")

\* y = ColorStr.from_str(x.rich)
FromRich ==
    \E a \in rich(heap, strs[Result].SEGMENTS) :
        /\ Assign(Operand, from_str(heap, a), "parse")

RichNext == Piece \/ FromRich

SpecRich == Init /\ [][RichNext]_vars

\* C3: parsing the serialization r.rich of a ColorStr r built by the public
\* constructors yields a ColorStr with the plain text of r and, at every
\* character, the fg, bg and style set of r
C3_RoundTrip ==
    call.op = "parse" =>
        /\ strs[Operand].plain = strs[Result].plain
        /\ PerChar(Segs(Operand)) = PerChar(Segs(Result))

\* a ColorStr of several patterns, one of them with several styles, has been
\* serialized and parsed
C3_Witness ==
    /\ call.op = "parse"
    /\ Len(strs[Result].plain) = MaxLen
    /\ Len(Segs(Result)) >= 2
    /\ \E n \in 1..Len(Segs(Result)) : Cardinality(Segs(Result)[n].styles) >= 2
    /\ \E n \in 1..Len(Segs(Result)) :
          Segs(Result)[n].fg # << >> /\ Segs(Result)[n].bg # << >>
    /\ \E n \in 1..Len(Segs(Result)) : equal_pattern(Segs(Result)[n], ColorSeg_empty)

(* -------------------------- the segment machine ------------------------ *)
\* heap[1] is the ColorSeg of the caller, heap[2] what an update made of it;
\* ansi is what assemble returned; call holds the operation with its arguments
SegInit ==
    /\ ansi = << >> /\ parsed = NotParsed
    /\ heap = <<ColorSeg_empty>> /\ strs = << >> /\ call = NoCall

\* seg = ColorSeg(plain, fg_code, bg_code, style_codes)
MakeSeg ==
    \E plain \in {<< >>, <<"a", "b">>},
       fg \in {<< >>, <<"31">>, <<"38", "5", "200">>}, bg \in {<< >>, <<"44">>},
       styles \in {{}, {"1"}, {"1", "3"}, {"1", "4"}} :
        /\ heap' = <<ColorSeg(plain, fg, bg, styles)>>
        /\ ansi' = << >>
        /\ call' = [op |-> "seg", t |-> 0]
        /\ UNCHANGED <<parsed, strs>>

\* seg.assemble(*enable)
Assemble ==
    \E enable \in SUBSET {"fg", "bg", "styles"} :
        \E order \in Enumerations(IF "styles" \in enable THEN heap[1].styles ELSE {}) :
            /\ ansi' = assemble_enable(heap[1], enable, order)
            /\ heap' = <<heap[1]>>
            /\ call' = [op |-> "assemble", t |-> 0, enable |-> enable]
            /\ UNCHANGED <<parsed, strs>>

\* the formatted rules of the caller: colour rules that set, clear and map
\* colours, and style pair lists over the targets "all", None and sets
SegRules ==
    LET colour == {SetRule(<<"32">>), SetRule(<< >>),
                   MapRule(<< <<(<<"31">>), (<<"32">>)>> >>),
                   MapRule(<< <<(<< >>), (<<"31">>)>>, <<(<<"31">>), (<<"32">>)>> >>),
                   MapRule(<< <<(<<"31">>), (<< >>)>>, <<(<<"31">>), (<<"32">>)>> >>),
                   MapRule(<< <<(<<"44">>), (<<"41">>)>>, <<(<<"41">>), (<< >>)>> >>)}
        target == {StyleAll, StyleNone, StyleSet({}), StyleSet({"1"}), StyleSet({"1", "3"})}
        to     == {StyleNone, StyleSet({}), StyleSet({"4"}), StyleSet({"1", "4"})}
        chain  == {<<StyleSet({"1"}), StyleSet({"4"})>>, <<StyleSet({"4"}), StyleNone>>,
                   <<StyleNone, StyleSet({"3"})>>, <<StyleAll, StyleSet({"1"})>>}
    IN  {<<fg, bg, NoRule>> : fg, bg \in colour \cup {NoRule}}
        \cup {<<NoRule, NoRule, MapRule(<<p>>)>> : p \in target \X to}
        \cup {<<NoRule, NoRule, MapRule(<<p, q>>)>> : p, q \in chain}
        \cup {<<SetRule(<<"32">>), NoRule, MapRule(<< <<StyleNone, StyleSet({"4"})>> >>)>>}

\* seg._update(fg, bg, styles) on a copy of the ColorSeg
SegUpdate ==
    \E rules \in SegRules :
        /\ heap' = <<heap[1], seg_update(heap[1], rules[1], rules[2], rules[3])>>
        /\ call' = [op |-> "update", t |-> 0, fg |-> rules[1], bg |-> rules[2],
                    styles |-> rules[3]]
        /\ ansi' = << >>
        /\ UNCHANGED <<parsed, strs>>

\* seg = ColorSeg.from_raw("a", fg=c) and seg = ColorSeg.from_raw("a", bg=c);
\* an exception is recorded as raised and leaves seg as it is
FromRaw ==
    \E is_fg \in BOOLEAN,
       c \in {StrArg(<<"r">>), StrArg(<<"x">>), StrArg(<<"lb">>), IntArg("200"), IntArg("256"),
              SeqArg(<<"1", "2", "3">>), SeqArg(<<"1", "2">>), SeqArg(<<"1", "2", "3", "4">>),
              SeqArg(<<"256", "0", "0">>)} :
        /\ heap' = IF to_color_code_raises(c, is_fg) THEN <<heap[1]>>
                   ELSE <<from_raw(<<"a">>, IF is_fg THEN c ELSE NoArg,
                                   IF is_fg THEN NoArg ELSE c, NoArg)>>
        /\ call' = [op |-> "from_raw", t |-> 0, c |-> c, is_fg |-> is_fg,
                    raised |-> to_color_code_raises(c, is_fg)]
        /\ ansi' = << >>
        /\ UNCHANGED <<parsed, strs>>

SegNext == MakeSeg \/ Assemble \/ SegUpdate \/ FromRaw

SpecSeg == SegInit /\ [][SegNext]_vars

\* ColorSeg.to_ansi is assemble with the three attributes enabled
ToAnsiIsAssemble ==
    \A order \in Enumerations(heap[1].styles) :
        assemble(heap[1], order) = assemble_enable(heap[1], {"fg", "bg", "styles"}, order)

\* C11: assemble of non-empty text with a requested subset of {styles, fg, bg}
\* is ESC [ params m text ESC [ 0 m, params being exactly the requested
\* attributes that are set, styles first, then fg, then bg, with no empty
\* parameter; it is the bare text when no requested attribute is set, and the
\* empty string for an empty segment
C11_AssembleParams ==
    call.op = "assemble" =>
        LET seg    == heap[1]
            text   == [k \in 1..Len(seg.plain) |-> Ch(seg.plain[k])]
            styles == IF "styles" \in call.enable THEN seg.styles ELSE {}
            fg     == IF "fg" \in call.enable THEN seg.fg ELSE << >>
            bg     == IF "bg" \in call.enable THEN seg.bg ELSE << >>
        IN  IF seg.plain = << >> THEN ansi = << >>
            ELSE IF styles = {} /\ fg = << >> /\ bg = << >> THEN ansi = text
            ELSE \E order \in Enumerations(styles) :
                    ansi = <<Esc(order \o fg \o bg)>> \o text \o <<Esc(<<"0">>)>>

\* the style set the rule list of the claim makes of the set C
RECURSIVE StyleRules(_, _)
StyleRules(C, pairs) ==
    IF pairs = << >> THEN C
    ELSE LET M == Head(pairs)[1]
             S == Head(pairs)[2]
             D == IF M.all THEN (IF S.none THEN {} ELSE S.set)
                  ELSE IF M.none THEN (IF S.none THEN C ELSE C \cup S.set)
                  ELSE IF M.set \subseteq C
                  THEN (IF S.none THEN C \ M.set ELSE (C \ M.set) \cup S.set)
                  ELSE C
         IN  StyleRules(D, Tail(pairs))

\* C16: the style pairs are applied in list order: ("all", S) makes the styles
\* S and ("all", None) empties them, (None, S) adds S, and (M, S) with M a
\* subset of the styles replaces M by S (removes M when S is None); a pair
\* that does not match leaves the styles as they are
C16_StyleRules ==
    (call.op = "update" /\ call.styles.k = "map") =>
        heap[2].styles = StyleRules(heap[1].styles, call.styles.m)

\* the colour the rule of the claim makes of the colour cur
ColourRule(cur, rule) ==
    LET F[n \in 0..Len(rule.m)] ==
            IF n = 0 THEN cur
            ELSE IF F[n - 1] = rule.m[n][1] THEN rule.m[n][2] ELSE F[n - 1]
    IN  IF rule.k = "set" THEN rule.v
        ELSE IF rule.k = "map" THEN F[Len(rule.m)] ELSE cur

\* C17: a literal colour rule sets the colour (the empty string clears it); the
\* pairs of a list are applied in order, each replacing the colour iff the
\* colour at that moment equals its match; fg and bg are rewritten separately
\* and the text and the other attributes stay as they are
C17_ColourRules ==
    call.op = "update" =>
        /\ heap[2].fg = ColourRule(heap[1].fg, call.fg)
        /\ heap[2].bg = ColourRule(heap[1].bg, call.bg)
        /\ heap[2].plain = heap[1].plain /\ heap[2].istart = heap[1].istart
        /\ call.styles.k = "none" => heap[2].styles = heap[1].styles

\* a list of two pairs has rewritten the fg twice, the second pair matching
\* what the first one set, and has left a bg that no pair matches
C17_Witness ==
    /\ call.op = "update" /\ call.fg.k = "map" /\ Len(call.fg.m) = 2
    /\ heap[1].fg = call.fg.m[1][1] /\ call.fg.m[1][2] = call.fg.m[2][1]
    /\ heap[2].fg = call.fg.m[2][2] /\ heap[2].fg # heap[1].fg
    /\ call.bg.k = "map" /\ heap[1].bg # << >> /\ heap[2].bg = heap[1].bg
    /\ heap[1].styles # {}

(* ------------------------- the call machine ---------------------------- *)
\* Two operands are built, x from decorated characters and y from one or two
\* of them; then one method is called on them and its arguments and what it
\* returns are recorded in call.

\* x = x + ColorStr.from_str(c, fg, styles=styles)
Grow ==
    \E c \in Chars, pat \in {<<NoArg, NoArg>>, <<StrArg(<<"r">>), NoArg>>,
                             <<StrArg(<<"r">>), StrArg(<<"bold">>)>>} :
        /\ call.op \in {"init", "build"}
        /\ Assign(Result,
                  With(from_str_raw(heap, <<Ch(c)>>, pat[1], NoArg, pat[2]), LAMBDA p :
                      add(p.h, strs[Result], Obj(p.r))),
                  "build")

\* y = ColorStr.from_str(c, ...) and y = ColorStr.from_str(c, ...) +
\* ColorStr.from_str(d, ...), assigned once
Sub ==
    \E c \in Chars, d \in {<< >>} \cup {<<Ch(e)>> : e \in Chars},
       p1, p2 \in {<<NoArg, NoArg>>, <<StrArg(<<"r">>), StrArg(<<"bold">>)>>} :
        /\ call.op \in {"init", "build"}
        /\ strs[Operand].plain = << >>
        /\ d = << >> => p2 = p1
        /\ Assign(Operand,
                  With(from_str_raw(heap, <<Ch(c)>>, p1[1], NoArg, p1[2]), LAMBDA p :
                      IF d = << >> THEN p
                      ELSE With(from_str_raw(p.h, d, p2[1], NoArg, p2[2]), LAMBDA q :
                               add(q.h, p.r, Obj(q.r)))),
                  "build")

\* x.findall(y, limit=limit), x.rfindall(y, limit=limit) and, with limit 1,
\* x.find(y) and x.rfind(y); as_str passes the text of y as a str
Find ==
    \E limit \in {-1, 1}, reverse \in BOOLEAN, as_str \in BOOLEAN :
        /\ call.op \in {"init", "build"}
        /\ strs[Operand].plain # << >>
        /\ as_str \/ findall_cstr_ok(heap, strs[Result], strs[Operand])
        /\ call' = [op |-> "findall", t |-> 0, limit |-> limit, reverse |-> reverse,
                    as_str |-> as_str,
                    found |-> IF as_str
                              THEN findall(strs[Result], strs[Operand].plain, limit, reverse)
                              ELSE findall_cstr(heap, strs[Result], strs[Operand],
                                                limit, reverse)]
        /\ UNCHANGED <<ansi, parsed, heap, strs>>

\* y.apply(x, start_idx, extend) and y.rapply(x, start_idx, extend)
ApplyCall ==
    \E start_idx \in (-1)..MaxLen, extend \in Extends, from_left \in BOOLEAN :
        /\ call.op \in {"init", "build"}
        /\ from_left \/ extend \in {"none", "all"}
        /\ call' = [op |-> "apply", t |-> 0, start_idx |-> start_idx, extend |-> extend,
                    from_left |-> from_left,
                    res |-> With(apply(heap, strs[Operand], Obj(strs[Result]),
                                       start_idx, extend, from_left),
                                 LAMBDA res : View(res.h, res.r))]
        /\ UNCHANGED <<ansi, parsed, heap, strs>>

\* x.rebuild(apply_range, fg=fg, styles=styles) with no operand y in use; an
\* IndexError of the call is recorded as raised
RebuildCall ==
    \E range \in Ranges, whole \in BOOLEAN,
       fg \in {ArgNone, ArgOne(StrArg(<<"r">>)), ArgOne(StrArg(<<"">>))},
       styles \in {ArgNone, ArgOne(StrArg(<<"clear">>)), ArgOne(StrArg(<<"">>)),
                   ArgPairs(<<<<StrArg(<<"all">>), StrArg(<<"udl">>)>>>>),
                   ArgPairs(<<<<StrArg(<<"all">>), NoArg>>>>),
                   ArgPairs(<<<<StrArg(<<"bold">>), StrArg(<<"udl">>)>>>>)} :
        /\ call.op \in {"init", "build"}
        /\ strs[Operand].plain = << >>
        /\ whole => range = <<Some(0), Some(0)>>
        /\ IF rebuild_ok(strs[Result], whole, range[1], range[2])
           THEN With(rebuild(heap, strs[Result], whole, range[1], range[2],
                             fg, ArgNone, styles), LAMBDA res :
                    /\ heap' = res.h
                    /\ call' = [op |-> "rebuild", t |-> 0, whole |-> whole, range |-> range,
                                fg |-> fg, styles |-> styles, raised |-> FALSE,
                                before |-> View(heap, strs[Result]),
                                res |-> View(res.h, res.r)])
           ELSE /\ heap' = heap
                /\ call' = [op |-> "rebuild", t |-> 0, whole |-> whole, range |-> range,
                            fg |-> fg, styles |-> styles, raised |-> TRUE,
                            before |-> View(heap, strs[Result]),
                            res |-> View(heap, strs[Result])]
        /\ UNCHANGED <<ansi, parsed, strs>>

\* cstr(x, fg=fg, styles=styles) with no operand y in use
CstrCall ==
    \E fg \in {ArgNone, ArgOne(StrArg(<<"r">>)), ArgOne(StrArg(<<"">>))},
       styles \in {ArgNone, ArgOne(StrArg(<<"clear">>)), ArgOne(StrArg(<<"">>)),
                   ArgPairs(<<<<StrArg(<<"all">>), StrArg(<<"udl">>)>>>>),
                   ArgPairs(<<<<StrArg(<<"all">>), NoArg>>>>),
                   ArgPairs(<<<<StrArg(<<"bold">>), StrArg(<<"udl">>)>>>>)} :
        /\ call.op \in {"init", "build"}
        /\ strs[Operand].plain = << >>
        /\ With(cstr(heap, <<Obj(strs[Result])>>, fg, ArgNone, styles, Str(<< >>)),
                LAMBDA res :
                    /\ heap' = res.h
                    /\ call' = [op |-> "cstr", t |-> 0, fg |-> fg, styles |-> styles,
                                before |-> View(heap, strs[Result]),
                                res |-> View(res.h, res.r)])
        /\ UNCHANGED <<ansi, parsed, strs>>

\* x.strip(arg), x.lstrip(arg), x.rstrip(arg), x.removeprefix(arg) and
\* x.removesuffix(arg) with no operand y in use
ClipCall ==
    \E kind \in {"strip", "lstrip", "rstrip", "removeprefix", "removesuffix"},
       arg \in {<<c>> : c \in Chars} :
        /\ call.op \in {"init", "build"}
        /\ strs[Operand].plain = << >>
        /\ call' = [op |-> "clip", t |-> 0, kind |-> kind, arg |-> arg,
                    res |-> With(clip_method(heap, kind, strs[Result], arg),
                                 LAMBDA res : View(res.h, res.r))]
        /\ UNCHANGED <<ansi, parsed, heap, strs>>

\* x.center(width, fillchar), x.ljust(width, fillchar) and
\* x.rjust(width, fillchar) with no operand y in use; fillchar is one
\* character, pat what it carries
JustifyCall ==
    \E kind \in {"center", "ljust", "rjust"}, width \in 1..(MaxLen + 1),
       fill \in {[a |-> <<Ch("b")>>,
                  pat |-> [c |-> "b", fg |-> << >>, bg |-> << >>, styles |-> {}]],
                 [a |-> <<Esc(<<"31">>), Ch("a")>>,
                  pat |-> [c |-> "a", fg |-> <<"31">>, bg |-> << >>, styles |-> {}]]} :
        /\ call.op \in {"init", "build"}
        /\ strs[Operand].plain = << >>
        /\ call' = [op |-> "justify", t |-> 0, kind |-> kind, width |-> width,
                    fill |-> fill.pat,
                    res |-> With(extend_method(heap, kind, strs[Result], width,
                                               Str(fill.a), "none"),
                                 LAMBDA res : View(res.h, res.r))]
        /\ UNCHANGED <<ansi, parsed, heap, strs>>

\* x[k] for an int k and x[i:j], with no operand y in use; an IndexError is
\* recorded as raised
GetCall ==
    \E is_slice \in BOOLEAN,
       i, j \in {<< >>} \cup {Some(k) : k \in (-(MaxLen + 1))..(MaxLen + 1)} :
        /\ call.op \in {"init", "build"}
        /\ strs[Operand].plain = << >>
        /\ ~is_slice => i # << >> /\ j = << >>
        /\ call' = [op |-> "getitem", t |-> 0, is_slice |-> is_slice, i |-> i, j |-> j,
                    raised |-> ~is_slice /\ ~getitem_int_ok(heap, strs[Result], i[1]),
                    res |-> IF is_slice
                            THEN With(getitem(heap, strs[Result], i, j),
                                      LAMBDA res : View(res.h, res.r))
                            ELSE IF getitem_int_ok(heap, strs[Result], i[1])
                            THEN With(getitem_int(heap, strs[Result], i[1]),
                                      LAMBDA res : View(res.h, res.r))
                            ELSE View(heap, strs[Result])]
        /\ UNCHANGED <<ansi, parsed, heap, strs>>

\* pieces = x.split(y, maxsplit) and x.rsplit(y, maxsplit), then
\* y.join(pieces); as_str passes the text of y as a str to split and
\* cstr(that str) joins the pieces
SplitCall ==
    \E maxsplit \in {-1, 0, 1}, reverse \in BOOLEAN, as_str \in BOOLEAN :
        /\ call.op \in {"init", "build"}
        /\ strs[Operand].plain # << >>
        /\ as_str \/ findall_cstr_ok(heap, strs[Result], strs[Operand])
        /\ call' =
            With(IF as_str THEN findall(strs[Result], strs[Operand].plain, maxsplit, reverse)
                 ELSE findall_cstr(heap, strs[Result], strs[Operand], maxsplit, reverse),
                 LAMBDA found :
            With(split_loop(heap, strs[Result], found, Len(strs[Operand].plain), 0, << >>),
                 LAMBDA sp :
            With(IF as_str
                 THEN from_str(sp.h, [k \in 1..Len(strs[Operand].plain) |->
                                         Ch(strs[Operand].plain[k])])
                 ELSE [h |-> sp.h, r |-> strs[Operand]], LAMBDA sep :
            With(join(sep.h, sep.r, [n \in 1..Len(sp.rs) |-> Obj(sp.rs[n])]), LAMBDA joined :
                [op |-> "split", t |-> 0, maxsplit |-> maxsplit, reverse |-> reverse,
                 as_str |-> as_str, found |-> found,
                 pieces |-> [n \in 1..Len(sp.rs) |-> View(sp.h, sp.rs[n])],
                 joined |-> joined.r.plain]))))
        /\ UNCHANGED <<ansi, parsed, heap, strs>>

CallNext ==
    \/ Grow \/ Sub \/ Find \/ ApplyCall \/ RebuildCall \/ CstrCall \/ ClipCall
    \/ JustifyCall \/ GetCall \/ SplitCall

SpecCall == Init /\ [][CallNext]_vars

(* -------------------- properties of the call machine ------------------- *)
\* C12: find, rfind and findall called with a ColorStr needle that carries a
\* pattern return only indices at which the window of r has the needle's
\* text and, character by character, the needle's fg, bg and styles.
C12_PatternSearchSound ==
    (call.op = "findall" /\ ~call.as_str /\ ~strs[Operand].is_plain) =>
        LET window == PerChar(Segs(Result))
            needle == PerChar(Segs(Operand))
        IN  \A n \in 1..Len(call.found) :
                /\ 0 <= call.found[n] /\ call.found[n] + Len(needle) <= Len(window)
                /\ \A k \in 1..Len(needle) : window[call.found[n] + k] = needle[k]

\* a needle of two differently decorated characters is found in r, or a
\* decorated needle is found at one place of r while another place, where
\* the text matches and the pattern differs, is not returned
C12_Witness ==
    /\ call.op = "findall" /\ ~call.as_str /\ ~strs[Operand].is_plain
    /\ call.limit = -1 /\ call.found # << >>
    /\ \/ Len(Segs(Operand)) > 1
       \/ \E j \in 0..Len(strs[Result].plain) :
            /\ OccursAt(strs[Result].plain, strs[Operand].plain, j)
            /\ \A n \in 1..Len(call.found) : call.found[n] # j

\* C13: with a pattern-free needle, a str or a ColorStr without fg, bg and
\* styles, the search returns the indices of the plain substring search in
\* r.plain, whatever pattern r carries.
C13_PatternFreeDelegates ==
    (call.op = "findall" /\ (call.as_str \/ strs[Operand].is_plain)) =>
        call.found = ext_findall(strs[Result].plain, strs[Operand].plain, 0, << >>,
                                 call.limit, call.reverse)

\* C14: apply and rapply with extend None return the target's text; every
\* position p with max(pl, 0) <= p < min(pr, T) carries the pattern of self
\* at p - pl and every other position keeps the target's pattern, where
\* pl = start_idx and pr = pl + P from the left, pr = T - start_idx and
\* pl = pr - P from the right.
C14_ApplyNoExtend ==
    (call.op = "apply" /\ call.extend = "none" /\ strs[Result].plain # << >>) =>
        LET target == PerChar(Segs(Result))
            self   == PerChar(Segs(Operand))
            T  == Len(target)
            P  == Len(self)
            pl == IF call.from_left THEN call.start_idx ELSE (T - call.start_idx) - P
            pr == IF call.from_left THEN call.start_idx + P ELSE T - call.start_idx
            out == PerChar(call.res.segs)
        IN  /\ call.res.plain = strs[Result].plain
            /\ Len(out) = T
            /\ \A p \in 0..(T - 1) :
                 out[p + 1] = IF Max(pl, 0) <= p /\ p < Min(pr, T)
                              THEN [self[p - pl + 1] EXCEPT !.c = target[p + 1].c]
                              ELSE target[p + 1]

\* a decorated self is applied without extension inside a target of another
\* pattern, part of which it leaves alone
C14_Witness ==
    /\ call.op = "apply" /\ call.extend = "none"
    /\ PerChar(call.res.segs) # PerChar(Segs(Result))
    /\ \E p \in 1..Len(strs[Result].plain) :
         /\ PerChar(call.res.segs)[p] = PerChar(Segs(Result))[p]
         /\ \A k \in 1..Len(strs[Operand].plain) :
              PerChar(Segs(Operand))[k] # PerChar(Segs(Result))[p]

\* C15: for a non-empty self, with extend "left" or "all" and pl > 0 every
\* target position p < min(pl, T) receives the pattern of the first segment
\* of self, and with extend "right" or "all" and pr < T every position
\* p >= max(pr, 0) receives the pattern of its last segment.
C15_ApplyOverhang ==
    (call.op = "apply" /\ strs[Operand].plain # << >> /\ strs[Result].plain # << >>) =>
        LET T  == Len(strs[Result].plain)
            P  == Len(strs[Operand].plain)
            pl == IF call.from_left THEN call.start_idx ELSE (T - call.start_idx) - P
            pr == IF call.from_left THEN call.start_idx + P ELSE T - call.start_idx
            out   == PerChar(call.res.segs)
            first == Segs(Operand)[1]
            last  == Segs(Operand)[Len(Segs(Operand))]
        IN  /\ Len(out) = T
            /\ (call.extend \in {"left", "all"} /\ pl > 0) =>
                 \A p \in 0..(Min(pl, T) - 1) :
                     /\ out[p + 1].fg = first.fg /\ out[p + 1].bg = first.bg
                     /\ out[p + 1].styles = first.styles
            /\ (call.extend \in {"right", "all"} /\ pr < T) =>
                 \A p \in Max(pr, 0)..(T - 1) :
                     /\ out[p + 1].fg = last.fg /\ out[p + 1].bg = last.bg
                     /\ out[p + 1].styles = last.styles

\* the range [start, stop) of the characters a recorded cstr or rebuild call
\* rewrites, and whether the call returned
CallRange ==
    IF call.op = "rebuild" /\ ~call.whole
    THEN loc_slice(Len(call.before.plain), call.range[1], call.range[2], 0)
    ELSE <<0, Len(call.before.plain)>>
Returned == call.op = "cstr" \/ (call.op = "rebuild" /\ ~call.raised)

\* C18: in cstr and rebuild a styles pair with the key "all" matches any
\* styles: ("all", S) leaves every segment in range with the styles S and
\* ("all", None) with none.
C18_AllKeyMatchesAny ==
    (Returned /\ call.styles.k = "pairs" /\ call.styles.m[1][1] = StrArg(<<"all">>)) =>
        \A p \in CallRange[1]..(CallRange[2] - 1) :
            PerChar(call.res.segs)[p + 1].styles =
                IF call.styles.m[1][2] = NoArg THEN {}
                ELSE to_style_codes(call.styles.m[1][2])

\* C19: in cstr and rebuild styles "" and styles "clear" leave every segment
\* in range with an empty style set.
C19_StylesCleared ==
    (Returned /\ call.styles \in {ArgOne(StrArg(<<"">>)), ArgOne(StrArg(<<"clear">>))}) =>
        \A p \in CallRange[1]..(CallRange[2] - 1) :
            PerChar(call.res.segs)[p + 1].styles = {}

\* C20: rebuild returns, for every slice, a new ColorStr with the text of r
\* in which the characters outside the range keep their pattern and those
\* inside have the rewritten one; r is unchanged.
C20_RebuildRange ==
    call.op = "rebuild" =>
        /\ ~call.raised
        /\ call.res.plain = call.before.plain
        /\ View(heap, strs[Result]) = call.before
        /\ Len(PerChar(call.res.segs)) = Len(call.before.plain)
        /\ \A p \in 0..(Len(call.before.plain) - 1) :
             LET old == PerChar(call.before.segs)[p + 1]
                 new == seg_update(ColorSeg(<<old.c>>, old.fg, old.bg, old.styles),
                                   fmt_c_mapping(call.fg, TRUE), NoRule,
                                   fmt_s_mapping(call.styles))
             IN  PerChar(call.res.segs)[p + 1] =
                     IF CallRange[1] <= p /\ p < CallRange[2]
                     THEN [c |-> old.c, fg |-> new.fg, bg |-> new.bg, styles |-> new.styles]
                     ELSE old

\* C21: strip, lstrip, rstrip, removeprefix and removesuffix return the text
\* of the native str method, every retained character with the pattern it
\* has at its own position in r: the slice of r the native method kept.
C21_ClipKeepsPattern ==
    call.op = "clip" =>
        LET kept == str_clip(call.kind, strs[Result].plain, call.arg)
        IN  /\ call.res.plain = SubText(strs[Result].plain, kept[1], kept[2])
            /\ PerChar(call.res.segs) =
                 [k \in 1..(kept[2] - kept[1]) |-> PerChar(Segs(Result))[kept[1] + k]]

\* C22: for width > len(r) and a one-character fillchar, ljust, rjust and
\* center return the padding of the native str method (center splits it as
\* str.center does) around the characters of r, which keep their patterns,
\* every padding character with the pattern of fillchar; for
\* width <= len(r) the result equals r.
C22_JustifyAsNative ==
    call.op = "justify" =>
        LET r    == PerChar(Segs(Result))
            n    == Len(r)
            pad  == call.width - n
            left == CASE call.kind = "ljust" -> 0
                      [] call.kind = "rjust" -> pad
                      [] call.kind = "center" ->
                            (pad \div 2) + (IF pad % 2 = 1 /\ call.width % 2 = 1 THEN 1 ELSE 0)
        IN  PerChar(call.res.segs) =
                IF call.width <= n THEN r
                ELSE [k \in 1..call.width |->
                        IF k <= left \/ k > left + n THEN call.fill ELSE r[k - left]]

\* C23: a colour specification that is an RGB sequence of an arity other
\* than 3, has a channel or a 256-colour index outside 0..255, or is an
\* unknown colour letter, raises instead of producing a segment.
C23_InvalidColourRaises ==
    LET c      == call.c
        num(s) == CHOOSE n \in 0..MaxNum : ToString(n) = s
        isnum(s) == \E n \in 0..MaxNum : ToString(n) = s
        invalid ==
            \/ c.t = "seq" /\ Len(c.v) # 3
            \/ c.t \in {"seq", "int"} /\ \E k \in 1..Len(c.v) : num(c.v[k]) > 255
            \/ /\ c.t = "str" /\ Len(c.v) = 1 /\ ~isnum(c.v[1])
               /\ c.v[1] \notin DOMAIN __STANDARD_COLOR_MAP
               /\ c.v[1] \notin DOMAIN __HIGHLIGHT_COLOR_MAP
    IN  (call.op = "from_raw" /\ invalid) => call.raised

\* C24 as stated: r[k] raises IndexError for k >= n and k < -n, an index
\* -n <= k < 0 returns the character at k + n with its pattern, and a slice
\* whose bounds lie outside the string raises IndexError.
C24_OutOfRangeRaises ==
    call.op = "getitem" =>
        LET r == PerChar(Segs(Result))
            n == Len(r)
            outside(b) == b # << >> /\ (b[1] > n \/ b[1] < -n)
        IN  IF call.is_slice
            THEN (outside(call.i) \/ outside(call.j)) => call.raised
            ELSE /\ (call.i[1] >= n \/ call.i[1] < -n) => call.raised
                 /\ (-n <= call.i[1] /\ call.i[1] < 0) =>
                        ~call.raised /\ PerChar(call.res.segs) = <<r[call.i[1] + n + 1]>>

\* C24 amended: the index part as stated, with 0 <= k < n returning the
\* character at k; a slice never raises, its bounds are clipped to the
\* string as for str and it returns the characters of r inside them.
C24_IndexRaisesSliceClips ==
    call.op = "getitem" =>
        LET r == PerChar(Segs(Result))
            n == Len(r)
            clip(b, none) == IF b = << >> THEN none
                             ELSE IF b[1] < 0 THEN Max(b[1] + n, 0) ELSE Min(b[1], n)
            lo == clip(call.i, 0)
            hi == clip(call.j, n)
        IN  IF call.is_slice
            THEN /\ ~call.raised
                 /\ PerChar(call.res.segs) = [k \in 1..(hi - lo) |-> r[lo + k]]
            ELSE /\ (call.i[1] >= n \/ call.i[1] < -n) => call.raised
                 /\ (-n <= call.i[1] /\ call.i[1] < n) =>
                        /\ ~call.raised
                        /\ PerChar(call.res.segs) =
                             <<r[(IF call.i[1] < 0 THEN call.i[1] + n ELSE call.i[1]) + 1]>>

\* a slice with a bound beyond the string has returned the decorated
\* characters inside it, or a negative index a decorated character
C24_Witness ==
    /\ call.op = "getitem" /\ ~call.raised /\ ~strs[Result].is_plain
    /\ PerChar(call.res.segs) # << >>
    /\ \/ call.is_slice /\ call.j # << >> /\ call.j[1] > Len(strs[Result].plain)
       \/ ~call.is_slice /\ call.i[1] < 0

(* ------------------------- the cache machine --------------------------- *)
\* x is built by Grow; then x.rich is read and x is updated in place, in any
\* order. call.cache is the entry "rich" of x.__dict__ (<< >> when absent),
\* call.read the value the last read returned, call.prev the one before.

\* a faulty update, which leaves the cached rich in place
cache_keep(cache) == cache

\* ColorStr._update: self.__dict__.pop("rich", None)
cache_pop(cache) == << >>

\* x.rich: the cached_property computes the value on the first read
ReadRich ==
    \E a \in rich(heap, strs[Result].SEGMENTS) :
        /\ call' = LET old == IF call.op \in {"rich", "update"} THEN call
                              ELSE [cache |-> << >>, read |-> << >>]
                       now == IF old.cache # << >> THEN old.cache[1] ELSE a
                   IN  [op |-> "rich", t |-> 0, cache |-> <<now>>, read |-> <<now>>,
                        prev |-> old.read]
        /\ UNCHANGED <<ansi, parsed, heap, strs>>

\* x._update(fg=fg, styles=styles)
UpdateCall ==
    \E fg \in {ArgNone, ArgOne(StrArg(<<"g">>)), ArgOne(StrArg(<<"">>))},
       styles \in {ArgNone, ArgOne(StrArg(<<"udl">>)), ArgOne(StrArg(<<"clear">>))} :
        /\ fg # ArgNone \/ styles # ArgNone
        /\ With(update(heap, strs[Result], fg, ArgNone, styles), LAMBDA res :
                /\ heap' = res.h
                /\ strs' = [strs EXCEPT ![Result] = res.r])
        /\ call' = LET old == IF call.op \in {"rich", "update"} THEN call
                              ELSE [cache |-> << >>, read |-> << >>]
                   IN  [op |-> "update", t |-> Result, cache |-> cache_pop(old.cache),
                        read |-> old.read, prev |-> old.read]
        /\ UNCHANGED <<ansi, parsed>>

CacheNext == Grow \/ ReadRich \/ UpdateCall

SpecCache == Init /\ [][CacheNext]_vars

\* C25: every read of r.rich is the concatenation of the serializations of
\* the current segments of r, and after an update the flags are those of the
\* current segments.
C25_RichNeverStale ==
    /\ call.op = "rich" => call.read[1] \in rich(heap, strs[Result].SEGMENTS)
    /\ call.op = "update" =>
         LET segs == Segs(Result)
             some(f(_)) == \E n \in 1..Len(segs) : f(segs[n])
             fg(seg) == seg.fg # << >>
             bg(seg) == seg.bg # << >>
             st(seg) == seg.styles # {}
         IN  /\ strs[Result].is_fg_colored = some(fg)
             /\ strs[Result].is_bg_colored = some(bg)
             /\ strs[Result].is_styled = some(st)
             /\ strs[Result].is_plain = ~(some(fg) \/ some(bg) \/ some(st))

\* r.rich is read, r is updated, and the next read returns another value
C25_Witness ==
    /\ call.op = "rich" /\ call.prev # << >> /\ call.prev # call.read
    /\ strs[Result].plain # << >>

\* C26: the pieces of split and rsplit are the slices of r between the
\* consecutive non-overlapping matches of the separator, every character
\* with its pattern from r; there is one piece more than matches used, at
\* most maxsplit matches are used, a str separator is matched wherever it
\* still fits, and joining the pieces with the separator gives the text of r.
C26_SplitJoin ==
    call.op = "split" =>
        LET r     == PerChar(Segs(Result))
            sep   == strs[Operand].plain
            found == call.found
            k     == Len(call.pieces)
            from(i) == IF i = 1 THEN 0 ELSE found[i - 1] + Len(sep)
            to(i)   == IF i = k THEN Len(r) ELSE found[i]
        IN  /\ k = Len(found) + 1
            /\ call.maxsplit >= 0 => Len(found) <= call.maxsplit
            /\ \A i \in 1..Len(found) : OccursAt(strs[Result].plain, sep, found[i])
            /\ \A i \in 1..k :
                 /\ from(i) <= to(i)
                 /\ PerChar(call.pieces[i].segs) = [n \in 1..(to(i) - from(i)) |-> r[from(i) + n]]
            /\ (call.as_str /\ (call.maxsplit < 0 \/ Len(found) < call.maxsplit)) =>
                 \A j \in 0..Len(r) :
                     OccursAt(strs[Result].plain, sep, j) =>
                         \E i \in 1..Len(found) :
                             j < found[i] + Len(sep) /\ found[i] < j + Len(sep)
            /\ call.joined = strs[Result].plain

\* a decorated r is split at a match into pieces that carry a pattern
C26_Witness ==
    /\ call.op = "split" /\ call.found # << >>
    /\ \E i \in 1..Len(call.pieces) :
          /\ call.pieces[i].plain # << >>
          /\ ~call.pieces[i].is_plain

\* C27: a == b is true exactly when a and b have the same plain text and
\* the same fg, bg and styles at every character position, however each
\* was built; a == b and b == a agree.
C27_EqualityByContent ==
    \A i, j \in Slots :
        (equal(heap, strs[i], strs[j], 0, Len(strs[i].plain)) = "True")
            <=> PerChar(Segs(i)) = PerChar(Segs(j))

(* ------------------------- the search machine -------------------------- *)
\* As the call machine, with a haystack x of up to MaxLen + 1 characters, so
\* that two places where a needle of two characters fits can overlap.

\* x = x + ColorStr.from_str(c, fg, styles=styles)
GrowHay ==
    \E c \in Chars, pat \in {<<NoArg, NoArg>>, <<StrArg(<<"r">>), StrArg(<<"bold">>)>>} :
        /\ call.op \in {"init", "build"}
        /\ Len(strs[Result].plain) <= MaxLen
        /\ With(from_str_raw(heap, <<Ch(c)>>, pat[1], NoArg, pat[2]), LAMBDA p :
           With(add(p.h, strs[Result], Obj(p.r)), LAMBDA res :
           With(Collect(res.h, [strs EXCEPT ![Result] = res.r]), LAMBDA live :
                heap' = live.h /\ strs' = live.ss)))
        /\ call' = [op |-> "build", t |-> Result]
        /\ UNCHANGED <<ansi, parsed>>

FindNext == GrowHay \/ Sub \/ Find

SpecFind == Init /\ [][FindNext]_vars

\* C28: for a ColorStr needle, r.find(needle) returns the smallest index at
\* which the window of r equals the needle in text and in per-character
\* pattern, and -1 only if there is none.
C28_PatternSearchComplete ==
    (call.op = "findall" /\ ~call.as_str /\ call.limit = 1 /\ ~call.reverse) =>
        LET window == PerChar(Segs(Result))
            needle == PerChar(Segs(Operand))
            exact  == {i \in 0..(Len(window) - Len(needle)) :
                          \A k \in 1..Len(needle) : window[i + k] = needle[k]}
        IN  call.found = IF exact = {} THEN << >>
                         ELSE <<CHOOSE i \in exact : \A j \in exact : i <= j>>

(* ----------------------- the search loop, stepwise --------------------- *)
\* ExtStr.findall / ExtStr.rfindall collect what the generator ExtStr._search
\* yields.  The generator is either at the head of its while loop or at its
\* yield.  A search that ends yields at most one index per character, or
\* limit indices, which is fewer than MaxYield: the list keeps its last
\* MaxYield indices and count stops at MaxYield.
MaxYield == MaxLen + 2

Needles ==
    {<< >>} \cup {<<c>> : c \in Chars} \cup {<<c, d>> : c, d \in Chars}

\* x.findall(sub, limit=limit) / x.rfindall(sub, limit=limit) is entered
SearchCall ==
    \E sub \in Needles, limit \in {-1, 0, 1, 2}, reverse \in BOOLEAN :
        /\ call.op \in {"init", "build"}
        /\ call' = [op |-> "search", t |-> Result, text |-> strs[Result].plain,
                    sub |-> sub, start |-> 0, end |-> << >>, limit |-> limit,
                    reverse |-> reverse, count |-> 0, found |-> << >>,
                    pc |-> "while", idx |-> -1, done |-> FALSE]
        /\ UNCHANGED <<heap, strs, ansi, parsed>>

\* one turn of the loop up to its yield: the loop condition, find / rfind,
\* break; when the generator ends the list is returned (reversed by rfindall)
SearchStep ==
    /\ call.op = "search"
    /\ ~call.done
    /\ call.pc = "while"
    /\ LET idx == str_find(call.text, call.sub, call.start, call.end, call.reverse)
           indices == IF call.reverse THEN Reverse(call.found) ELSE call.found
       IN  call' =
               IF ~(call.limit < 0 \/ call.count < call.limit)
               THEN [call EXCEPT !.done = TRUE, !.found = indices]
               ELSE [call EXCEPT
                        !.idx = idx,
                        !.start = IF call.reverse THEN @ ELSE idx + Len(call.sub),
                        !.end = IF call.reverse THEN Some(idx) ELSE @,
                        !.done = (idx = -1),
                        !.found = IF idx = -1 THEN indices ELSE @,
                        !.pc = IF idx = -1 THEN @ ELSE "yield"]
    /\ UNCHANGED <<heap, strs, ansi, parsed>>

\* yield idx, which list() appends, and count += 1
SearchYield ==
    /\ call.op = "search"
    /\ ~call.done
    /\ call.pc = "yield"
    /\ LET all == Append(call.found, call.idx)
       IN  call' = [call EXCEPT
                       !.found = SubSeq(all, Max(1, Len(all) - MaxYield + 1), Len(all)),
                       !.count = Min(@ + 1, MaxYield),
                       !.pc = "while"]
    /\ UNCHANGED <<heap, strs, ansi, parsed>>

SearchNext == Grow \/ SearchCall \/ SearchStep \/ SearchYield

\* the interpreter keeps running a loop that has a next step
SpecSearch ==
    Init /\ [][SearchNext]_vars /\ WF_vars(SearchStep) /\ WF_vars(SearchYield)

\* C29: every search finishes: for every haystack, every needle (the empty
\* one included) and every limit (-1 included), findall and rfindall end
\* after finitely many turns of the loop and return a finite list.
C29_SearchTerminates ==
    (call.op = "search") ~> (call.op = "search" /\ call.done)

(* --------------------------- the pattern flags -------------------------- *)
\* C30: the pattern flags describe the characters: isfgcolored (isbgcolored,
\* isstyled) is true iff at least one character carries a foreground colour
\* (a background colour, a style), and isplain is true iff no character
\* carries any of them.
C30_FlagsDescribeCharacters ==
    \A k \in Slots :
        LET chars == PerChar(Segs(k))
            on(n) == chars[n]
            any_fg == \E n \in 1..Len(chars) : on(n).fg # << >>
            any_bg == \E n \in 1..Len(chars) : on(n).bg # << >>
            any_st == \E n \in 1..Len(chars) : on(n).styles # {}
        IN  /\ strs[k].is_fg_colored <=> any_fg
            /\ strs[k].is_bg_colored <=> any_bg
            /\ strs[k].is_styled <=> any_st
            /\ strs[k].is_plain <=> ~(any_fg \/ any_bg \/ any_st)

====
